---- MODULE Spec2Model ----
(***************************************************************************)
(* A model of the krypin smart-home hub: the in-process bus                *)
(* (hub-core/src/bus.rs), the storage implementations                      *)
(* (hub-core/src/storage.rs), the hub's bus subscribers                    *)
(* (hubd/src/subscribers), the automation engine                           *)
(* (automations/src/lib.rs), the capability model (hub-core/src/cap) and   *)
(* the capability components of the adapter SDK (adapter-sdk/src).         *)
(*                                                                         *)
(* Strings that the code inspects character by character (topics and       *)
(* patterns) are sequences of their pieces: single characters, or the      *)
(* words between the dots.  Identifiers (UUIDs) are opaque model values    *)
(* compared by equality.                                                   *)
(***************************************************************************)
EXTENDS Naturals, Integers, Sequences, FiniteSets, TLC

VARIABLES
    chan,       \* bus: every Message the broadcast channel accepted, in send order
    subs,       \* bus: per subscription its receiver state, or NoSub
    bus_ret,    \* bus: what the last publish / subscribe call returned
    kind,       \* storage: which implementation wiring.rs built ("inmem" / "postgres")
    areas,      \* storage: AreaId -> Area, or None
    devices,    \* storage: DeviceId -> Device, or None
    entities,   \* storage: EntityId -> Entity, or None
    states_by_entity,   \* storage: EntityId -> the entity's state records
    poisoned,   \* storage: the in-memory RwLock was poisoned by a panic
    st_ret,     \* storage: the last call, its argument and what it returned
    tasks,      \* hub: per subscriber task, how far it has got
    hub_ret,    \* hub: the message a subscriber task handled last, and how
    automations,    \* engine: AutomationId -> AutomationDefinition, or None
    run,        \* engine: the handle_event / test_automation call in flight
    effects,    \* engine: the actions executed so far, in order
    auto_ret,   \* engine: what the last call of the engine returned
    comp,       \* sdk: the capability component: its driver's description, how far
                \* spawn and the command loop have got, the driver calls so far
    cap,        \* the last pure function applied to an input, and its result
    api,        \* hubd: the configured tokens, the requests handled so far, the
                \* last request and its response
    mq          \* remote bus: the event loop's task and what the broker connection
                \* will hand to its next polls

bus_vars == <<chan, subs, bus_ret>>

store_vars == <<kind, areas, devices, entities, states_by_entity, poisoned, st_ret>>

hub_vars == <<tasks, hub_ret>>

auto_vars == <<automations, run, effects, auto_ret>>

sdk_vars == <<comp, cap>>

ext_vars == <<api, mq>>

vars == <<chan, subs, bus_ret, kind, areas, devices, entities, states_by_entity,
          poisoned, st_ret, tasks, hub_ret, automations, run, effects, auto_ret,
          comp, cap, api, mq>>

\* what a step of the bus alone, or of the storage alone, leaves as it is
not_bus == <<store_vars, hub_vars, auto_vars, sdk_vars, ext_vars>>
not_store == <<bus_vars, hub_vars, auto_vars, sdk_vars, ext_vars>>
not_auto == <<bus_vars, store_vars, hub_vars, sdk_vars, ext_vars>>
not_sdk == <<store_vars, hub_vars, auto_vars, ext_vars>>

----------------------------------------------------------------------------
(* Bounds of the model *)

\* how many publish calls a behaviour makes
MaxPub == 4

\* capacity of the broadcast channel; the code asks for 1024
\* (bus.rs:43), the model scales it down so that overflow is reachable
Cap == 2

\* messages published in a behaviour with an adapter component: its two
\* announcements, then commands and the updates that answer them
MaxPubSdk == 5

\* the same with a switch component, whose commands are few: room for two
\* commands and both their updates
MaxPubSwitch == 6

PubBound ==
    IF comp.domain = "none" THEN MaxPub
    ELSE IF comp.domain = "switch" THEN MaxPubSwitch
    ELSE MaxPubSdk

----------------------------------------------------------------------------
(* Strings *)

Str_sensor_temp == <<"s", ".", "t">>
Str_other == <<"o">>
Pat_sensor_star == <<"s", ".", "*">>
Pat_star == <<"*">>

BusTopics == {Str_sensor_temp, Str_other}
BusPatterns == {Pat_sensor_star, Pat_star, Str_other}
BusSubIds == {"r1", "r2"}

\* str::starts_with
starts_with(s, prefix) ==
    /\ Len(prefix) <= Len(s)
    /\ SubSeq(s, 1, Len(prefix)) = prefix

\* str::strip_suffix succeeded
has_suffix(s, suffix) ==
    /\ Len(suffix) <= Len(s)
    /\ SubSeq(s, Len(s) - Len(suffix) + 1, Len(s)) = suffix

\* the value of str::strip_suffix when it succeeds
strip_suffix(s, suffix) == SubSeq(s, 1, Len(s) - Len(suffix))

\* bus.rs topic_matches
topic_matches(pattern, topic) ==
    IF pattern = <<"*">> THEN TRUE
    ELSE IF pattern = topic THEN TRUE
    ELSE IF has_suffix(pattern, <<".", "*">>)
        THEN LET prefix == strip_suffix(pattern, <<".", "*">>)
             IN  topic = prefix \/ starts_with(topic, prefix \o <<".">>)
    ELSE IF has_suffix(pattern, <<"*">>)
        THEN starts_with(topic, strip_suffix(pattern, <<"*">>))
    ELSE FALSE

----------------------------------------------------------------------------
(* InMemoryBus: a tokio broadcast channel of capacity Cap.  A receiver      *)
(* holds a cursor into the channel; the channel retains the newest Cap      *)
(* messages; a receiver whose cursor was overwritten gets Err(Lagged) on    *)
(* its next recv and its cursor moves to the oldest retained message.       *)

NoSub == [pattern |-> <<>>, created |-> 0, next |-> 0, out |-> <<>>, lost |-> {}, open |-> FALSE]

IsSub(s) == subs[s].open

\* number of messages the receiver has not read yet
Unread(sub) == Len(chan) - sub.next + 1

\* broadcast::Receiver::recv: the cursor was overwritten
Lagged(sub) == Unread(sub) > Cap

\* the cursor after Err(Lagged): the oldest message the channel retains
LagTarget == Len(chan) - Cap + 1

\* a receiver that behaves like a watch channel: it reads the newest message
ReadPosNewest(sub) == Len(chan)

\* the position a receiver that did not lag reads: its cursor
ReadPos(sub) == sub.next

\* the closure without its pattern guard
filter_map_unfiltered(pat, is_ok, msg) == is_ok

\* the closure given to filter_map (bus.rs:61-67): whether the item is yielded
filter_map(pat, is_ok, msg) ==
    is_ok /\ topic_matches(pat, msg.topic)

\* a publish on a bounded queue: it waits while a subscriber's buffer is full
publish_blocking(topic, payload) ==
    /\ Len(chan) < PubBound
    /\ \A s \in DOMAIN subs : IsSub(s) => Unread(subs[s]) < Cap
    /\ chan' = Append(chan, [topic |-> topic, payload |-> payload])
    /\ bus_ret' = "ok"
    /\ UNCHANGED subs

\* InMemoryBus::publish (bus.rs:50-53): send on the channel, ignore the result
publish(topic, payload) ==
    /\ Len(chan) < PubBound
    /\ chan' = Append(chan, [topic |-> topic, payload |-> payload])
    /\ bus_ret' = "ok"
    /\ UNCHANGED subs

\* InMemoryBus::subscribe (bus.rs:55-69)
subscribe(s, pattern) ==
    /\ ~IsSub(s)
    /\ subs' = [subs EXCEPT ![s] =
            [pattern |-> pattern, created |-> Len(chan), next |-> Len(chan) + 1,
             out |-> <<>>, lost |-> {}, open |-> TRUE]]
    /\ bus_ret' = "ok"
    /\ UNCHANGED chan

\* one item of the subscription's stream, taken from a channel that holds an
\* unread message: BroadcastStream yields Ok(msg) or Err(Lagged), filter_map
\* keeps or skips it.  The receiver afterwards, and the position of the
\* message the stream yields (<<>> when the item is skipped)
recv_one(sub) ==
    IF Lagged(sub)
    THEN [sub |-> [sub EXCEPT !.next = LagTarget,
                              !.lost = sub.lost \cup (sub.next .. (LagTarget - 1))],
          item |-> <<>>]
    ELSE LET keep == filter_map(sub.pattern, TRUE, chan[ReadPos(sub)]) IN
         [sub |-> [sub EXCEPT !.next = sub.next + 1,
                              !.out = IF keep THEN Append(sub.out, ReadPos(sub)) ELSE sub.out],
          item |-> IF keep THEN <<ReadPos(sub)>> ELSE <<>>]

\* the stream takes one item
recv(s) ==
    /\ IsSub(s)
    /\ Unread(subs[s]) > 0
    /\ subs' = [subs EXCEPT ![s] = recv_one(subs[s]).sub]
    /\ UNCHANGED <<chan, bus_ret>>

\* StreamExt::next on the subscription: one poll takes items until
\* filter_map keeps one (Ready) or the channel has no unread message (Pending)
RECURSIVE poll_next(_)
poll_next(sub) ==
    IF Unread(sub) = 0 THEN [sub |-> sub, item |-> <<>>]
    ELSE LET r == recv_one(sub) IN
         IF r.item # <<>> THEN r ELSE poll_next(r.sub)

BusInit ==
    /\ chan = <<>>
    /\ subs = [s \in BusSubIds |-> NoSub]
    /\ bus_ret = "none"

BusNext ==
    \/ \E t \in BusTopics : publish(t, "x") /\ UNCHANGED not_bus
    \/ \E s \in BusSubIds, p \in BusPatterns : subscribe(s, p) /\ UNCHANGED not_bus
    \/ \E s \in BusSubIds : recv(s) /\ UNCHANGED not_bus

----------------------------------------------------------------------------
(* Storage (hub-core/src/storage.rs).  InMemoryStorage keeps HashMaps behind *)
(* a std RwLock; PostgresStorage keeps tables.  Both are modelled on the    *)
(* same variables: maps from id to record, and per entity the sequence of   *)
(* its state records (the in-memory Vec, or the entity's rows in insertion  *)
(* order).  Errors of the database connection itself are not modelled.      *)

\* Option<T>: None is the empty sequence, Some(x) the sequence of x
None == <<>>
Some(x) == <<x>>

\* Result<T>: Ok(value), Err(..), or a panic that unwinds the caller
Ok(val) == [tag |-> "ok", val |-> val]
Err == [tag |-> "err", val |-> <<>>]
Panicked == [tag |-> "panic", val |-> <<>>]

AreaIds == {"a1", "a2"}
DeviceIds == {"d1", "d2"}
EntityIds == {"e1", "e2"}

\* timestamps of state records
MaxTime == 2
Times == 1 .. MaxTime

\* records an entity's history may hold in the model
MaxStates == 3

Area(id, parent) == [id |-> id, parent |-> parent]
Device(id, area) == [id |-> id, area |-> area]
Entity(id, device_id) == [id |-> id, device_id |-> device_id]
EntityState(entity_id, value, attributes, last_changed, last_updated, source) ==
    [entity_id |-> entity_id, value |-> value, attributes |-> attributes,
     last_changed |-> last_changed, last_updated |-> last_updated, source |-> source]

\* HashMap::contains_key / SELECT COUNT(1) ... WHERE id = $1
contains_key(map, id) == map[id] # None

\* what a call returned
Ret(op, arg, res) == [op |-> op, arg |-> arg, res |-> res]

\* a call panicked: self.inner.read()/write().unwrap() on a poisoned lock,
\* or todo!(); the task that made the call unwinds
Panic(op, arg) ==
    /\ st_ret' = Ret(op, arg, Panicked)
    /\ UNCHANGED <<kind, areas, devices, entities, states_by_entity>>

\* a call returned Err(..) before it wrote anything
Fail(op, arg) ==
    /\ st_ret' = Ret(op, arg, Err)
    /\ UNCHANGED <<kind, areas, devices, entities, states_by_entity, poisoned>>

\* Vec::sort_by_key(|s| s.last_changed) is a stable sort: the place of a
\* record among records that are already in key order
RECURSIVE insert_by_key(_, _)
insert_by_key(sorted, x) ==
    IF sorted = <<>> THEN <<x>>
    ELSE IF sorted[Len(sorted)].last_changed <= x.last_changed
        THEN Append(sorted, x)
    ELSE Append(insert_by_key(SubSeq(sorted, 1, Len(sorted) - 1), x), sorted[Len(sorted)])

RECURSIVE sort_by_key(_)
sort_by_key(v) ==
    IF v = <<>> THEN <<>>
    ELSE insert_by_key(sort_by_key(SubSeq(v, 1, Len(v) - 1)), v[Len(v)])

\* Iterator::filter(..).collect()
RECURSIVE filter_since(_, _)
filter_since(v, since) ==
    IF v = <<>> THEN <<>>
    ELSE LET rest == filter_since(SubSeq(v, 1, Len(v) - 1), since)
             s == v[Len(v)]
         IN  IF since = None \/ s.last_changed >= since[1] THEN Append(rest, s) ELSE rest

(* InMemoryStorage *)

\* storage.rs:126-138; the parent None arm is todo!(), reached while the
\* write guard is held, which poisons the lock
InMem_upsert_area(area) ==
    IF poisoned THEN Panic("upsert_area", area) /\ UNCHANGED poisoned
    ELSE IF area.parent = None
        THEN Panic("upsert_area", area) /\ poisoned' = TRUE
    ELSE IF ~contains_key(areas, area.parent[1])
        THEN Fail("upsert_area", area)
    ELSE /\ areas' = [areas EXCEPT ![area.id] = Some(area)]
         /\ st_ret' = Ret("upsert_area", area, Ok(<<>>))
         /\ UNCHANGED <<kind, devices, entities, states_by_entity, poisoned>>

\* storage.rs:150-162; the area None arm is todo!()
InMem_upsert_device(device) ==
    IF poisoned THEN Panic("upsert_device", device) /\ UNCHANGED poisoned
    ELSE IF device.area = None
        THEN Panic("upsert_device", device) /\ poisoned' = TRUE
    ELSE IF ~contains_key(areas, device.area[1])
        THEN Fail("upsert_device", device)
    ELSE /\ devices' = [devices EXCEPT ![device.id] = Some(device)]
         /\ st_ret' = Ret("upsert_device", device, Ok(<<>>))
         /\ UNCHANGED <<kind, areas, entities, states_by_entity, poisoned>>

\* storage.rs:174-181
InMem_upsert_entity(entity) ==
    IF poisoned THEN Panic("upsert_entity", entity) /\ UNCHANGED poisoned
    ELSE IF ~contains_key(devices, entity.device_id)
        THEN Fail("upsert_entity", entity)
    ELSE /\ entities' = [entities EXCEPT ![entity.id] = Some(entity)]
         /\ st_ret' = Ret("upsert_entity", entity, Ok(<<>>))
         /\ UNCHANGED <<kind, areas, devices, states_by_entity, poisoned>>

\* storage.rs:188-197: push, then sort the Vec by last_changed
InMem_set_entity_state(state) ==
    IF poisoned THEN Panic("set_entity_state", state) /\ UNCHANGED poisoned
    ELSE IF ~contains_key(entities, state.entity_id)
        THEN Fail("set_entity_state", state)
    ELSE /\ states_by_entity' = [states_by_entity EXCEPT ![state.entity_id] =
                sort_by_key(Append(@, state))]
         /\ st_ret' = Ret("set_entity_state", state, Ok(<<>>))
         /\ UNCHANGED <<kind, areas, devices, entities, poisoned>>

\* storage.rs:140-143, 164-167, 183-186: HashMap::get(..).cloned()
InMem_get(map, id) == map[id]

\* storage.rs:199-202: the last record of the Vec
InMem_latest_entity_state(id) ==
    LET v == states_by_entity[id] IN
    IF v = <<>> THEN None ELSE Some(v[Len(v)])

\* storage.rs:204-226: filter by last_changed, then drain all but the last
\* `limit` records; the Vec's order is kept
InMem_entity_state_history(id, since, limit) ==
    LET list == filter_since(states_by_entity[id], since) IN
    IF Len(list) > limit
    THEN SubSeq(list, Len(list) - limit + 1, Len(list))
    ELSE list

(* PostgresStorage *)

\* storage.rs:237-259
Pg_upsert_area(area) ==
    IF area.parent # None /\ ~contains_key(areas, area.parent[1])
        THEN Fail("upsert_area", area)
    ELSE /\ areas' = [areas EXCEPT ![area.id] = Some(area)]
         /\ st_ret' = Ret("upsert_area", area, Ok(<<>>))
         /\ UNCHANGED <<kind, devices, entities, states_by_entity, poisoned>>

\* storage.rs:281-318
Pg_upsert_device(device) ==
    IF device.area # None /\ ~contains_key(areas, device.area[1])
        THEN Fail("upsert_device", device)
    ELSE /\ devices' = [devices EXCEPT ![device.id] = Some(device)]
         /\ st_ret' = Ret("upsert_device", device, Ok(<<>>))
         /\ UNCHANGED <<kind, areas, entities, states_by_entity, poisoned>>

\* storage.rs:341-378
Pg_upsert_entity(entity) ==
    IF ~contains_key(devices, entity.device_id)
        THEN Fail("upsert_entity", entity)
    ELSE /\ entities' = [entities EXCEPT ![entity.id] = Some(entity)]
         /\ st_ret' = Ret("upsert_entity", entity, Ok(<<>>))
         /\ UNCHANGED <<kind, areas, devices, states_by_entity, poisoned>>

\* a write that keeps one row per entity
Pg_set_entity_state_replace(state) ==
    IF ~contains_key(entities, state.entity_id)
        THEN Fail("set_entity_state", state)
    ELSE /\ states_by_entity' = [states_by_entity EXCEPT ![state.entity_id] = <<state>>]
         /\ st_ret' = Ret("set_entity_state", state, Ok(<<>>))
         /\ UNCHANGED <<kind, areas, devices, entities, poisoned>>

\* storage.rs:391-414: INSERT INTO entity_states
Pg_set_entity_state(state) ==
    IF ~contains_key(entities, state.entity_id)
        THEN Fail("set_entity_state", state)
    ELSE /\ states_by_entity' = [states_by_entity EXCEPT ![state.entity_id] =
                Append(@, state)]
         /\ st_ret' = Ret("set_entity_state", state, Ok(<<>>))
         /\ UNCHANGED <<kind, areas, devices, entities, poisoned>>

\* SELECT ... WHERE id = $1, fetch_optional
Pg_get(map, id) == map[id]

\* the row numbers among `rows` whose last_updated is greatest
MaxLastUpdated(v, rows) ==
    {i \in rows : \A j \in rows : v[j].last_updated <= v[i].last_updated}

\* the orders in which ORDER BY last_updated DESC LIMIT n may return the
\* rows numbered `rows` of `v`: last_updated does not increase, and rows
\* with equal last_updated come in any order (the query names no tiebreak)
RECURSIVE OrderByLastUpdatedDesc(_, _, _)
OrderByLastUpdatedDesc(v, rows, n) ==
    IF n = 0 \/ rows = {} THEN {<<>>}
    ELSE UNION {{<<v[i]>> \o rest : rest \in OrderByLastUpdatedDesc(v, rows \ {i}, n - 1)} :
                    i \in MaxLastUpdated(v, rows)}

\* storage.rs:416-426: ... ORDER BY last_updated DESC LIMIT 1; the set of
\* rows the query may return (None when there is no row)
Pg_latest_entity_state(id) ==
    LET v == states_by_entity[id] IN
    IF v = <<>> THEN {None}
    ELSE OrderByLastUpdatedDesc(v, DOMAIN v, 1)

\* storage.rs:428-448: WHERE entity_id = $1 [AND last_changed >= $2]
\* ORDER BY last_updated DESC LIMIT $3; the set of row sequences the query
\* may return
Pg_entity_state_history(id, since, limit) ==
    LET v == filter_since(states_by_entity[id], since)
    IN  OrderByLastUpdatedDesc(v, DOMAIN v, limit)

(* trait Storage as the hub calls it: Arc<dyn Storage> dispatches on the    *)
(* implementation wiring.rs chose                                           *)

upsert_area(area) ==
    IF kind = "inmem" THEN InMem_upsert_area(area)
    ELSE Pg_upsert_area(area)

upsert_device(device) ==
    IF kind = "inmem" THEN InMem_upsert_device(device)
    ELSE Pg_upsert_device(device)

upsert_entity(entity) ==
    IF kind = "inmem" THEN InMem_upsert_entity(entity)
    ELSE Pg_upsert_entity(entity)

\* a write that registers an entity it does not know
set_entity_state_registering(state) ==
    IF contains_key(entities, state.entity_id)
    THEN (IF kind = "inmem" THEN InMem_set_entity_state(state)
          ELSE Pg_set_entity_state(state))
    ELSE /\ entities' = [entities EXCEPT ![state.entity_id] =
                Some(Entity(state.entity_id, "d1"))]
         /\ states_by_entity' = [states_by_entity EXCEPT ![state.entity_id] =
                Append(@, state)]
         /\ st_ret' = Ret("set_entity_state", state, Ok(<<>>))
         /\ UNCHANGED <<kind, areas, devices, poisoned>>

set_entity_state(state) ==
    IF kind = "inmem" THEN InMem_set_entity_state(state)
    ELSE Pg_set_entity_state(state)

\* a read-only call: it changes nothing but what the caller got back
Returns(op, arg, results) ==
    /\ \E r \in results : st_ret' = Ret(op, arg, r)
    /\ UNCHANGED <<kind, areas, devices, entities, states_by_entity, poisoned>>

get_area(id) ==
    Returns("get_area", [id |-> id],
        IF kind = "inmem" THEN (IF poisoned THEN {Panicked} ELSE {Ok(InMem_get(areas, id))})
        ELSE {Ok(Pg_get(areas, id))})

get_device(id) ==
    Returns("get_device", [id |-> id],
        IF kind = "inmem" THEN (IF poisoned THEN {Panicked} ELSE {Ok(InMem_get(devices, id))})
        ELSE {Ok(Pg_get(devices, id))})

get_entity(id) ==
    Returns("get_entity", [id |-> id],
        IF kind = "inmem" THEN (IF poisoned THEN {Panicked} ELSE {Ok(InMem_get(entities, id))})
        ELSE {Ok(Pg_get(entities, id))})

\* the values a latest_entity_state(id) call may return
latest_results(id) ==
    IF kind = "inmem"
    THEN (IF poisoned THEN {Panicked} ELSE {Ok(InMem_latest_entity_state(id))})
    ELSE {Ok(r) : r \in Pg_latest_entity_state(id)}

latest_entity_state(id) ==
    Returns("latest_entity_state", [id |-> id], latest_results(id))

\* the values an entity_state_history(id, since, limit) call may return
history_results(id, since, limit) ==
    IF kind = "inmem"
    THEN (IF poisoned THEN {Panicked} ELSE {Ok(InMem_entity_state_history(id, since, limit))})
    ELSE {Ok(r) : r \in Pg_entity_state_history(id, since, limit)}

entity_state_history(id, since, limit) ==
    Returns("entity_state_history", [id |-> id, since |-> since, limit |-> limit],
        history_results(id, since, limit))

\* InMemoryStorage::default() / PostgresStorage::connect on an empty database
StoreInit(k) ==
    /\ kind = k
    /\ areas = [id \in AreaIds |-> None]
    /\ devices = [id \in DeviceIds |-> None]
    /\ entities = [id \in EntityIds |-> None]
    /\ states_by_entity = [id \in EntityIds |-> <<>>]
    /\ poisoned = FALSE
    /\ st_ret = Ret("none", [id |-> "none"], Ok(<<>>))

\* callers of the storage that exercise the referential checks
OptAreaIds == {None} \cup {Some(a) : a \in AreaIds}
AreaInputs == {Area(id, parent) : id \in AreaIds, parent \in OptAreaIds}
DeviceInputs == {Device(id, area) : id \in DeviceIds, area \in OptAreaIds}
EntityInputs == {Entity(id, dev) : id \in EntityIds, dev \in DeviceIds}
PlainStates == {EntityState(e, "v1", "attrs", 1, 1, "test") : e \in EntityIds}

RefNext ==
    \/ \E a \in AreaInputs : upsert_area(a) /\ UNCHANGED not_store
    \/ \E d \in DeviceInputs : upsert_device(d) /\ UNCHANGED not_store
    \/ \E e \in EntityInputs : upsert_entity(e) /\ UNCHANGED not_store
    \/ \E s \in PlainStates :
          /\ Len(states_by_entity[s.entity_id]) < 1
          /\ set_entity_state(s) /\ UNCHANGED not_store
    \/ \E id \in AreaIds : get_area(id) /\ UNCHANGED not_store
    \/ \E id \in DeviceIds : get_device(id) /\ UNCHANGED not_store
    \/ \E id \in EntityIds : get_entity(id) /\ UNCHANGED not_store
    \/ \E id \in EntityIds : latest_entity_state(id) /\ UNCHANGED not_store

\* callers that exercise the state history of entities of one device
TimedStates ==
    {EntityState("e1", "v1", "attrs", lc, lu, "test") : lc \in Times, lu \in Times}
        \cup {EntityState("e2", "v1", "attrs", 1, 1, "test")}
Sinces == {None, Some(2)}
Limits == {0, 1, 2}

HistNext ==
    \/ upsert_device(Device("d1", None)) /\ UNCHANGED not_store
    \/ \E e \in EntityIds : upsert_entity(Entity(e, "d1")) /\ UNCHANGED not_store
    \/ \E s \in TimedStates :
          /\ Len(states_by_entity["e1"]) + Len(states_by_entity["e2"]) < MaxStates
          /\ set_entity_state(s) /\ UNCHANGED not_store
    \/ \E id \in EntityIds : latest_entity_state(id) /\ UNCHANGED not_store
    \/ \E since \in Sinces, limit \in Limits :
          entity_state_history("e1", since, limit) /\ UNCHANGED not_store

----------------------------------------------------------------------------
(* The hub's subscriber tasks (hubd/src/subscribers).  spawn_all starts one *)
(* tokio task per message type; each task subscribes and then handles the   *)
(* messages of its stream one after the other.                              *)

HubTasks == {"device", "entity", "state"}

TOPIC_DEVICE_ANNOUNCE == <<"krypin", ".", "device", ".", "announce">>
TOPIC_ENTITY_ANNOUNCE == <<"krypin", ".", "entity", ".", "announce">>
TOPIC_STATE_UPDATE_PREFIX == <<"krypin", ".", "state", ".", "update", ".">>

\* the pattern each task subscribes with; format!("{TOPIC_STATE_UPDATE_PREFIX}*")
task_pattern(t) ==
    CASE t = "device" -> TOPIC_DEVICE_ANNOUNCE
      [] t = "entity" -> TOPIC_ENTITY_ANNOUNCE
      [] t = "state" -> TOPIC_STATE_UPDATE_PREFIX \o <<"*">>

\* the contract type each task decodes
task_type(t) ==
    CASE t = "device" -> "DeviceAnnounce"
      [] t = "entity" -> "EntityAnnounce"
      [] t = "state" -> "StateUpdate"

DeviceAnnounce(id, area) == [id |-> id, area |-> area]
EntityAnnounce(id, device_id) == [id |-> id, device_id |-> device_id]
StateUpdate(entity_id, value, attributes, ts, source) ==
    [entity_id |-> entity_id, value |-> value, attributes |-> attributes,
     ts |-> ts, source |-> source]

\* serde_json::to_vec of a contract value: the bytes of its JSON object
to_vec(type, v) == [json |-> type, body |-> v]

\* bytes that are not the JSON of any contract type
Garbage == [json |-> "garbage", body |-> <<>>]

\* serde_json::from_slice::<T>: the objects of the contract types have
\* different required members, so only T's own JSON decodes as T
from_slice(type, payload) ==
    IF payload.json = type THEN Ok(payload.body) ELSE Err

\* a state record built from the wrong clock: the time of handling
state_of_update_now(v) ==
    EntityState(v.entity_id, v.value, v.attributes, MaxTime + 1, MaxTime + 1, v.source)

\* state.rs:16-23
state_of_update(v) ==
    EntityState(v.entity_id, v.value, v.attributes, v.ts, v.ts, v.source)

\* the storage call a task makes for a decoded message
\* (device.rs:15-26, entity.rs:15-24, state.rs:16-24)
task_store(t, v) ==
    CASE t = "device" -> upsert_device(Device(v.id, v.area))
      [] t = "entity" -> upsert_entity(Entity(v.id, v.device_id))
      [] t = "state" -> set_entity_state(state_of_update(v))

\* the body of a task's `while let Some(msg) = stream.next().await`: decode,
\* store, log a failure and go on; a panic of the storage call ends the task
on_message(t, msg) ==
    LET d == from_slice(task_type(t), msg.payload) IN
    IF d.tag = "ok"
    THEN /\ task_store(t, d.val)
         /\ hub_ret' = [task |-> t, msg |-> msg, outcome |-> st_ret'.res.tag]
         /\ tasks' = [tasks EXCEPT ![t] =
                IF st_ret'.res.tag = "panic" THEN "panicked" ELSE @]
    ELSE /\ hub_ret' = [task |-> t, msg |-> msg, outcome |-> "decode_error"]
         /\ UNCHANGED <<store_vars, tasks>>

\* the task is polled for the first time: app.bus.subscribe(pattern)
task_subscribe(t) ==
    /\ tasks[t] = "spawned"
    /\ subscribe(t, task_pattern(t))
    /\ tasks' = [tasks EXCEPT ![t] = "running"]
    /\ UNCHANGED <<store_vars, hub_ret>>

\* the task is polled with unread messages in the channel:
\* stream.next().await yields the next message of the task's topic to the loop
\* body, or finds none and leaves the task waiting
task_next(t) ==
    LET r == poll_next(subs[t]) IN
    /\ tasks[t] = "running"
    /\ Unread(subs[t]) > 0
    /\ subs' = [subs EXCEPT ![t] = r.sub]
    /\ UNCHANGED <<chan, bus_ret>>
    /\ IF r.item # <<>>
       THEN on_message(t, chan[r.item[1]])
       ELSE UNCHANGED <<store_vars, hub_vars>>

\* subscribers::spawn_all has returned: the tasks exist, none has run yet
HubInit ==
    /\ tasks = [t \in HubTasks |-> "spawned"]
    /\ hub_ret = [task |-> "none", msg |-> <<>>, outcome |-> "none"]
    /\ chan = <<>>
    /\ subs = [t \in HubTasks |-> NoSub]
    /\ bus_ret = "none"

\* no hub is running
NoHub ==
    /\ tasks = [t \in HubTasks |-> "none"]
    /\ hub_ret = [task |-> "none", msg |-> <<>>, outcome |-> "none"]

(* An adapter built on the SDK (adapter-sdk/src/runtime.rs): it announces   *)
(* its device, then its entity, then publishes the entity's state updates.  *)

\* AdapterContext::announce_device (runtime.rs:33-36)
announce_device(announce) ==
    publish(TOPIC_DEVICE_ANNOUNCE, to_vec("DeviceAnnounce", announce))

\* AdapterContext::announce_entity (runtime.rs:38-41)
announce_entity(announce) ==
    publish(TOPIC_ENTITY_ANNOUNCE, to_vec("EntityAnnounce", announce))

\* AdapterContext::publish_state (runtime.rs:43-47)
publish_state(update) ==
    publish(TOPIC_STATE_UPDATE_PREFIX \o <<update.entity_id>>, to_vec("StateUpdate", update))

Values == {"on", "off"}
Updates == {StateUpdate("e1", v, "attrs", ts, Some("adapter")) : v \in Values, ts \in Times}

\* a publisher that calls Bus::publish itself (bus.rs:50-53 takes any topic
\* and any bytes): an update of e1 on the topic of e2
CrossedUpdate == StateUpdate("e1", "on", "attrs", 1, Some("bridge"))

HubNext ==
    \/ \E t \in HubTasks : task_subscribe(t) /\ UNCHANGED <<auto_vars, sdk_vars, ext_vars>>
    \/ \E t \in HubTasks : task_next(t) /\ UNCHANGED <<auto_vars, sdk_vars, ext_vars>>
    \/ /\ chan = <<>>
       /\ announce_device(DeviceAnnounce("d1", None)) /\ UNCHANGED not_bus
    \/ /\ Len(chan) = 1
       /\ announce_entity(EntityAnnounce("e1", "d1")) /\ UNCHANGED not_bus
    \/ /\ Len(chan) >= 2
       /\ \E u \in Updates : publish_state(u) /\ UNCHANGED not_bus
    \/ /\ Len(chan) >= 2
       /\ publish(TOPIC_STATE_UPDATE_PREFIX \o <<"e1">>, Garbage) /\ UNCHANGED not_bus
    \/ /\ Len(chan) >= 2
       /\ publish(TOPIC_STATE_UPDATE_PREFIX \o <<"e2">>, to_vec("StateUpdate", CrossedUpdate))
       /\ UNCHANGED not_bus

----------------------------------------------------------------------------
(* The automation engine (automations/src/lib.rs).  handle_event and        *)
(* test_automation are async: between the listing, the evaluation of one    *)
(* automation and each of its actions other calls may run.                  *)

AutomationIds == {"m1", "m2"}

\* actions a behaviour executes before the last engine call starts
MaxEffects == 2

\* a matcher whose `.*` rule leaves out the prefix itself
auto_topic_matches_below_only(pattern, topic) ==
    IF pattern = <<"*">> THEN TRUE
    ELSE IF pattern = topic THEN TRUE
    ELSE IF has_suffix(pattern, <<".", "*">>)
        THEN starts_with(topic, strip_suffix(pattern, <<".", "*">>) \o <<".">>)
    ELSE IF has_suffix(pattern, <<"*">>)
        THEN starts_with(topic, strip_suffix(pattern, <<"*">>))
    ELSE FALSE

\* lib.rs:352-366, the engine's own copy of the matcher
auto_topic_matches(pattern, topic) ==
    IF pattern = <<"*">> THEN TRUE
    ELSE IF pattern = topic THEN TRUE
    ELSE IF has_suffix(pattern, <<".", "*">>)
        THEN LET prefix == strip_suffix(pattern, <<".", "*">>)
             IN  topic = prefix \/ starts_with(topic, prefix \o <<".">>)
    ELSE IF has_suffix(pattern, <<"*">>)
        THEN starts_with(topic, strip_suffix(pattern, <<"*">>))
    ELSE FALSE

\* a matcher of state changes that does not look at the old value
trigger_matches_any_from(trigger, event) ==
    CASE trigger.type = "manual" /\ event.type = "manual" -> TRUE
      [] trigger.type = "time" /\ event.type = "time_fired" -> trigger.cron = event.cron
      [] trigger.type = "state_change" /\ event.type = "state_changed" ->
            IF trigger.entity_id # event.entity_id THEN FALSE
            ELSE IF trigger.to # None /\ event.to # trigger.to[1] THEN FALSE
            ELSE TRUE
      [] trigger.type = "mqtt_topic" /\ event.type = "mqtt_message" ->
            auto_topic_matches(trigger.pattern, event.topic)
      [] trigger.type = "heartbeat" /\ event.type = "heartbeat" -> TRUE
      [] OTHER -> FALSE

\* lib.rs:321-350
trigger_matches(trigger, event) ==
    CASE trigger.type = "manual" /\ event.type = "manual" -> TRUE
      [] trigger.type = "time" /\ event.type = "time_fired" -> trigger.cron = event.cron
      [] trigger.type = "state_change" /\ event.type = "state_changed" ->
            IF trigger.entity_id # event.entity_id THEN FALSE
            ELSE IF trigger.from # None /\ event.from # Some(trigger.from[1]) THEN FALSE
            ELSE IF trigger.to # None /\ event.to # trigger.to[1] THEN FALSE
            ELSE TRUE
      [] trigger.type = "mqtt_topic" /\ event.type = "mqtt_message" ->
            auto_topic_matches(trigger.pattern, event.topic)
      [] trigger.type = "heartbeat" /\ event.type = "heartbeat" -> TRUE
      [] OTHER -> FALSE

\* serde_json::Value::pointer on a payload object
pointer(payload, path) ==
    IF path \in DOMAIN payload THEN Some(payload[path]) ELSE None

\* lib.rs:266-285: the results the call may have, Ok(bool) or the storage's
\* failure
condition_holds(condition, event) ==
    CASE condition.type = "always" -> {Ok(TRUE)}
      [] condition.type = "entity_state_equals" ->
            IF event.type = "state_changed" /\ event.entity_id = condition.entity_id
            THEN {Ok(event.to = condition.value)}
            ELSE {IF r.tag = "ok"
                  THEN Ok(r.val # None /\ r.val[1].value = condition.value)
                  ELSE r : r \in latest_results(condition.entity_id)}
      [] condition.type = "payload_equals" ->
            IF event.type = "mqtt_message"
            THEN {Ok(pointer(event.payload, condition.path) = Some(condition.value))}
            ELSE {Ok(FALSE)}

\* lib.rs:253-264: in order, the first false or failing condition decides
RECURSIVE conditions_hold(_, _)
conditions_hold(conditions, event) ==
    IF conditions = <<>> THEN {Ok(TRUE)}
    ELSE UNION {IF r.tag # "ok" THEN {r}
                ELSE IF ~r.val THEN {Ok(FALSE)}
                ELSE conditions_hold(Tail(conditions), event) :
                    r \in condition_holds(Head(conditions), event)}

\* the AutomationDefinition create_automation builds (lib.rs:183-193)
AutomationDefinition(id, new) ==
    [id |-> id, trigger |-> new.trigger, conditions |-> new.conditions,
     actions |-> new.actions, enabled |-> new.enabled]

TestRun(automation_id, executed, reason) ==
    [automation_id |-> automation_id, executed |-> executed, reason |-> reason]

\* no engine call is in flight
Idle == [op |-> "idle", event |-> <<>>, todo |-> <<>>, id |-> "none", acts |-> <<>>, idx |-> 0]

\* the engine call in flight returns
Return(op, arg, res) ==
    /\ run' = Idle
    /\ auto_ret' = [op |-> op, arg |-> arg, res |-> res]

\* the arguments of the engine call in flight
RunArg ==
    IF run.op = "test_automation" THEN <<run.id, run.event>> ELSE <<run.event>>

\* HashMap::values(): the stored automations in some order
list ==
    LET ids == {id \in AutomationIds : automations[id] # None}
        orders == {f \in [1 .. Cardinality(ids) -> ids] :
                        \A i, j \in DOMAIN f : f[i] = f[j] => i = j}
    IN  {[i \in DOMAIN f |-> automations[f[i]][1]] : f \in orders}

\* lib.rs:181-195; AutomationId::new() is an id no automation has
create_automation(new) ==
    /\ \E id \in AutomationIds :
          /\ automations[id] = None
          /\ automations' = [automations EXCEPT ![id] = Some(AutomationDefinition(id, new))]
          /\ auto_ret' = [op |-> "create_automation", arg |-> <<new>>,
                          res |-> Ok(AutomationDefinition(id, new))]
    /\ UNCHANGED <<run, effects>>

\* lib.rs:200-211
set_enabled(id, enabled) ==
    /\ IF automations[id] = None
       THEN /\ auto_ret' = [op |-> "set_enabled", arg |-> <<id, enabled>>, res |-> Err]
            /\ UNCHANGED automations
       ELSE /\ automations' = [automations EXCEPT ![id] =
                    Some([automations[id][1] EXCEPT !.enabled = enabled])]
            /\ auto_ret' = [op |-> "set_enabled", arg |-> <<id, enabled>>,
                             res |-> Ok(automations'[id][1])]
    /\ UNCHANGED <<run, effects>>

\* lib.rs:214: handle_event starts and takes the listing
handle_event(event) ==
    /\ run = Idle
    /\ Len(effects) < MaxEffects
    /\ \E automations_ \in list :
          run' = [op |-> "handle_event", event |-> event, todo |-> automations_,
                  id |-> "none", acts |-> <<>>, idx |-> 0]
    /\ UNCHANGED <<automations, effects, auto_ret>>

\* a listing that keeps the disabled automations
filter_enabled_all(a) == TRUE

\* lib.rs:215: .filter(|a| a.enabled)
filter_enabled(a) == a.enabled

\* lib.rs:215-224: the loop of handle_event reaches its next automation,
\* or the end of the listing
handle_event_next ==
    /\ run.op = "handle_event"
    /\ run.acts = <<>>
    /\ IF run.todo = <<>>
       THEN Return("handle_event", RunArg, Ok(<<>>))
       ELSE LET automation == Head(run.todo)
                skip == /\ run' = [run EXCEPT !.todo = Tail(run.todo)]
                        /\ UNCHANGED auto_ret
            IN  IF ~filter_enabled(automation) THEN skip
                ELSE IF ~trigger_matches(automation.trigger, run.event) THEN skip
                ELSE \E c \in conditions_hold(automation.conditions, run.event) :
                        IF c.tag # "ok" THEN Return("handle_event", RunArg, c)
                        ELSE IF ~c.val THEN skip
                        ELSE /\ run' = [run EXCEPT !.todo = Tail(run.todo),
                                                   !.id = automation.id,
                                                   !.acts = automation.actions,
                                                   !.idx = 0]
                             /\ UNCHANGED auto_ret
    /\ UNCHANGED <<automations, effects>>

\* a test run that does not look at the trigger
test_automation_any_trigger(id, event) ==
    /\ run = Idle
    /\ Len(effects) < MaxEffects
    /\ IF automations[id] = None
       THEN Return("test_automation", <<id, event>>,
                   Ok(TestRun(id, FALSE, Some("automation not found"))))
       ELSE LET automation == automations[id][1] IN
            \E c \in conditions_hold(automation.conditions, event) :
                IF c.tag # "ok" THEN Return("test_automation", <<id, event>>, c)
                ELSE IF ~c.val
                THEN Return("test_automation", <<id, event>>,
                            Ok(TestRun(id, FALSE, Some("conditions failed"))))
                ELSE /\ run' = [op |-> "test_automation", event |-> event, todo |-> <<>>,
                                id |-> id, acts |-> automation.actions, idx |-> 0]
                     /\ UNCHANGED auto_ret
    /\ UNCHANGED <<automations, effects>>

\* lib.rs:227-249: test_automation up to the start of the actions
test_automation(id, event) ==
    /\ run = Idle
    /\ Len(effects) < MaxEffects
    /\ IF automations[id] = None
       THEN Return("test_automation", <<id, event>>, Ok(TestRun(id, FALSE, Some("automation not found"))))
       ELSE LET automation == automations[id][1] IN
            IF ~trigger_matches(automation.trigger, event)
            THEN Return("test_automation", <<id, event>>, Ok(TestRun(id, FALSE, Some("trigger did not match"))))
            ELSE \E c \in conditions_hold(automation.conditions, event) :
                    IF c.tag # "ok" THEN Return("test_automation", <<id, event>>, c)
                    ELSE IF ~c.val
                    THEN Return("test_automation", <<id, event>>, Ok(TestRun(id, FALSE, Some("conditions failed"))))
                    ELSE /\ run' = [op |-> "test_automation", event |-> event, todo |-> <<>>,
                                    id |-> id, acts |-> automation.actions, idx |-> 0]
                         /\ UNCHANGED auto_ret
    /\ UNCHANGED <<automations, effects>>

\* lib.rs:250: all actions of the tested automation have run
test_automation_return ==
    /\ run.op = "test_automation"
    /\ run.acts = <<>>
    /\ Return("test_automation", RunArg, Ok(TestRun(run.id, TRUE, None)))
    /\ UNCHANGED <<automations, effects>>

\* the action at the head of the run has completed
Executed(action) ==
    /\ effects' = Append(effects,
            [id |-> run.id, idx |-> run.idx + 1, type |-> action.type, via |-> run.op,
             enabled |-> automations[run.id][1].enabled])
    /\ run' = [run EXCEPT !.acts = Tail(run.acts), !.idx = run.idx + 1]
    /\ UNCHANGED auto_ret

\* a run that goes on with its next action after one has failed
execute_action_keep_going ==
    /\ run.acts # <<>>
    /\ LET action == Head(run.acts) IN
       CASE action.type = "set_entity_state" ->
                /\ \E now \in Times :
                      set_entity_state(EntityState(action.entity_id, action.value,
                            action.attributes, now, now, Some("automation")))
                /\ IF st_ret'.res.tag = "ok"
                   THEN Executed(action)
                   ELSE /\ run' = [run EXCEPT !.acts = Tail(run.acts), !.idx = run.idx + 1]
                        /\ UNCHANGED <<effects, auto_ret>>
                /\ UNCHANGED <<bus_vars, hub_vars, sdk_vars, ext_vars>>
         [] action.type = "publish_bus_message" ->
                /\ publish(action.topic, to_vec("Value", action.payload))
                /\ Executed(action)
                /\ UNCHANGED <<store_vars, hub_vars, sdk_vars, ext_vars>>
         [] action.type = "log" ->
                /\ Executed(action)
                /\ UNCHANGED not_auto
    /\ UNCHANGED automations

\* lib.rs:287-318: execute_actions runs the next action; `?` returns its
\* failure from the whole call
execute_action ==
    /\ run.acts # <<>>
    /\ LET action == Head(run.acts) IN
       CASE action.type = "set_entity_state" ->
                /\ \E now \in Times :
                      set_entity_state(EntityState(action.entity_id, action.value,
                            action.attributes, now, now, Some("automation")))
                /\ IF st_ret'.res.tag = "ok"
                   THEN Executed(action)
                   ELSE Return(run.op, RunArg, st_ret'.res) /\ UNCHANGED effects
                /\ UNCHANGED <<bus_vars, hub_vars, sdk_vars, ext_vars>>
         [] action.type = "publish_bus_message" ->
                /\ publish(action.topic, to_vec("Value", action.payload))
                /\ Executed(action)
                /\ UNCHANGED <<store_vars, hub_vars, sdk_vars, ext_vars>>
         [] action.type = "log" ->
                /\ Executed(action)
                /\ UNCHANGED not_auto
    /\ UNCHANGED automations

\* AutomationEngine::new with InMemoryAutomationStore::default()
AutoInit ==
    /\ automations = [id \in AutomationIds |-> None]
    /\ run = Idle
    /\ effects = <<>>
    /\ auto_ret = [op |-> "none", arg |-> <<>>, res |-> Ok(<<>>)]

\* what the callers of the engine pass in
Log == [type |-> "log", message |-> "hello"]
NewAutomations ==
    {[trigger |-> [type |-> "manual"], conditions |-> <<>>,
      actions |-> <<Log>>, enabled |-> en] : en \in BOOLEAN}
    \cup {[trigger |-> [type |-> "state_change", entity_id |-> "e1", from |-> None, to |-> Some("on")],
           conditions |-> <<[type |-> "always"]>>,
           actions |-> <<[type |-> "set_entity_state", entity_id |-> "e2",
                          value |-> "on", attributes |-> "attrs"], Log>>,
           enabled |-> en] : en \in BOOLEAN}
    \cup {[trigger |-> [type |-> "manual"], conditions |-> <<>>,
           actions |-> <<[type |-> "set_entity_state", entity_id |-> "e2",
                          value |-> "off", attributes |-> "attrs"], Log>>,
           enabled |-> TRUE]}
    \cup {[trigger |-> [type |-> "manual"], conditions |-> <<>>,
           actions |-> <<[type |-> "set_entity_state", entity_id |-> "e2",
                          value |-> "on", attributes |-> "attrs"]>>,
           enabled |-> TRUE]}
    \cup {[trigger |-> [type |-> "heartbeat"],
           conditions |-> <<[type |-> "entity_state_equals", entity_id |-> "e2", value |-> "on"]>>,
           actions |-> <<[type |-> "publish_bus_message", topic |-> Str_other,
                          payload |-> "on"]>>,
           enabled |-> TRUE]}
TriggerEvents ==
    {[type |-> "manual"], [type |-> "heartbeat", ts |-> 1],
     [type |-> "state_changed", entity_id |-> "e1", from |-> None, to |-> "on"]}

AutoNext ==
    \/ \E new \in NewAutomations : create_automation(new) /\ UNCHANGED not_auto
    \/ \E id \in AutomationIds, en \in BOOLEAN : set_enabled(id, en) /\ UNCHANGED not_auto
    \/ \E event \in TriggerEvents : handle_event(event) /\ UNCHANGED not_auto
    \/ handle_event_next /\ UNCHANGED not_auto
    \/ \E id \in AutomationIds, event \in TriggerEvents :
          test_automation(id, event) /\ UNCHANGED not_auto
    \/ test_automation_return /\ UNCHANGED not_auto
    \/ execute_action
    \/ upsert_device(Device("d1", None)) /\ UNCHANGED not_store
    \/ upsert_entity(Entity("e2", "d1")) /\ UNCHANGED not_store

----------------------------------------------------------------------------
(* The capability model (hub-core/src/cap) and the command mappers of the   *)
(* SDK components (adapter-sdk/src).  A JSON value is a record of its kind  *)
(* and its content; an object's content is a record of its members.         *)

JNull == [jkind |-> "null", jval |-> <<>>]
JBool(b) == [jkind |-> "bool", jval |-> b]
JNum(n) == [jkind |-> "num", jval |-> n]
JStr(s) == [jkind |-> "str", jval |-> s]
JArr(a) == [jkind |-> "arr", jval |-> a]
JObj(o) == [jkind |-> "obj", jval |-> o]

\* serde_json::Value::get(key): a member of an object, None for other values
get(value, key) ==
    IF value.jkind = "obj" /\ key \in DOMAIN value.jval THEN Some(value.jval[key]) ELSE None

\* opt.and_then(|v| v.get(key))
and_then_get(opt, key) == IF opt = None THEN None ELSE get(opt[1], key)

\* opt.and_then(|v| v.as_bool()), .as_str(), .as_f64()
as_kind(json_kind, opt) ==
    IF opt # None /\ opt[1].jkind = json_kind THEN Some(opt[1].jval) ELSE None

\* opt.and_then(|v| v.as_u64()): a number that is not negative
as_u64(opt) ==
    IF opt # None /\ opt[1].jkind = "num" /\ opt[1].jval >= 0 THEN Some(opt[1].jval) ELSE None

\* Option::unwrap_or
unwrap_or(opt, default) == IF opt = None THEN default ELSE opt[1]

\* serde's snake_case names of HvacMode and HvacFanMode (hvac.rs:22-42)
HvacModeNames ==
    [Off |-> "off", Heat |-> "heat", Cool |-> "cool", Auto |-> "auto", Dry |-> "dry",
     FanOnly |-> "fan_only"]
HvacFanModeNames ==
    [Auto |-> "auto", Low |-> "low", Medium |-> "medium", High |-> "high",
     Turbo |-> "turbo", Quiet |-> "quiet"]

\* HvacCommandMapper::parse_mode and parse_fan_mode of an optional JSON value
\* (adapter-sdk hvac.rs:120-142)
parse_name(names, opt) ==
    LET s == as_kind("str", opt) IN
    IF s # None /\ \E m \in DOMAIN names : names[m] = s[1]
    THEN Some(CHOOSE m \in DOMAIN names : names[m] = s[1])
    ELSE None

\* SwitchCommandMapper::from_json (adapter-sdk switch.rs:121-145)
SwitchCommandMapper_from_json(value) ==
    LET action == unwrap_or(as_kind("str", get(value, "action")), "set")
        raw_value == get(value, "value")
        top == as_kind("bool", get(value, "on"))
        member == as_kind("bool", and_then_get(raw_value, "on"))
        plain == as_kind("bool", raw_value)
    IN  IF action = "toggle" THEN Ok([type |-> "Toggle"])
        ELSE IF top # None THEN Ok([type |-> "Set", on |-> top[1]])
        ELSE IF member # None THEN Ok([type |-> "Set", on |-> member[1]])
        ELSE IF plain # None THEN Ok([type |-> "Set", on |-> plain[1]])
        ELSE Err

\* obj.get("transition_ms").and_then(|x| x.as_u64()).map(|n| n as u32); the
\* cast keeps every n below 2^32, and the integers of the model are below 2^31
transition_of(obj) == as_u64(and_then_get(obj, "transition_ms"))

\* rgb[i].as_u64().unwrap_or(0) as u8
channel_of(rgb, i) == unwrap_or(as_u64(Some(rgb[i])), 0) % (2 ^ 8)

\* LightCommandMapper::from_json (adapter-sdk light.rs:154-199)
LightCommandMapper_from_json(v) ==
    LET action == unwrap_or(as_kind("str", get(v, "action")), "set")
        val == get(v, "value")
        obj == IF val # None /\ val[1].jkind = "obj" THEN val ELSE None
        on == as_kind("bool", and_then_get(obj, "on"))
        brightness == as_u64(and_then_get(obj, "brightness"))
        mireds == as_u64(and_then_get(obj, "mireds"))
        rgb == as_kind("arr", and_then_get(obj, "rgb"))
        plain == as_kind("bool", val)
    IN  IF action = "toggle" THEN Ok([type |-> "Toggle"])
        ELSE IF on # None THEN Ok([type |-> "SetPower", on |-> on[1]])
        ELSE IF brightness # None
        THEN Ok([type |-> "SetBrightness",
                 level |-> IF brightness[1] < 2 ^ 8 /\ brightness[1] < 100
                           THEN brightness[1] ELSE 100,
                 transition_ms |-> transition_of(obj)])
        ELSE IF mireds # None
        THEN Ok([type |-> "SetColorTemp", mireds |-> mireds[1] % (2 ^ 16),
                 transition_ms |-> transition_of(obj)])
        ELSE IF rgb # None /\ Len(unwrap_or(rgb, <<>>)) = 3
        THEN Ok([type |-> "SetRgb",
                 rgb |-> [r |-> channel_of(rgb[1], 1), g |-> channel_of(rgb[1], 2),
                          b |-> channel_of(rgb[1], 3)],
                 transition_ms |-> transition_of(obj)])
        ELSE IF plain # None THEN Ok([type |-> "SetPower", on |-> plain[1]])
        ELSE Err

\* HvacCommandMapper::from_json (adapter-sdk hvac.rs:144-193)
HvacCommandMapper_from_json(v) ==
    LET action == unwrap_or(as_kind("str", get(v, "action")), "set")
        value == unwrap_or(get(v, "value"), v)
        mode == parse_name(HvacModeNames, get(value, "mode"))
        temperature ==
            as_kind("num", IF get(value, "target_temperature_c") # None
                           THEN get(value, "target_temperature_c")
                           ELSE get(value, "temperature"))
        fan_mode == parse_name(HvacFanModeNames, get(value, "fan_mode"))
        SetMode(m) == Ok([type |-> "SetMode", mode |-> m[1]])
        SetTargetTemperature(t) == Ok([type |-> "SetTargetTemperature", temperature |-> t[1]])
        SetFanMode(f) == Ok([type |-> "SetFanMode", fan_mode |-> f[1]])
    IN  CASE action = "set_mode" ->
                IF mode # None THEN SetMode(mode)
                ELSE IF parse_name(HvacModeNames, Some(value)) # None
                THEN SetMode(parse_name(HvacModeNames, Some(value)))
                ELSE Err
          [] action = "set_temperature" ->
                IF temperature # None THEN SetTargetTemperature(temperature) ELSE Err
          [] action = "set_fan_mode" ->
                IF fan_mode # None THEN SetFanMode(fan_mode)
                ELSE IF parse_name(HvacFanModeNames, Some(value)) # None
                THEN SetFanMode(parse_name(HvacFanModeNames, Some(value)))
                ELSE Err
          [] OTHER ->
                IF mode # None THEN SetMode(mode)
                ELSE IF temperature # None THEN SetTargetTemperature(temperature)
                ELSE IF fan_mode # None THEN SetFanMode(fan_mode)
                ELSE Err

\* the actions of the robot vacuum and their commands
\* (hub-core cap/robotvac.rs:122-133)
RobotVacActions ==
    [Start |-> "start", Pause |-> "pause", Stop |-> "stop", Dock |-> "dock",
     Locate |-> "locate", SpotClean |-> "spot_clean"]

\* RobotVacCommandMapper::from_json (adapter-sdk robotvac.rs:120-131)
RobotVacCommandMapper_from_json(v) ==
    LET action == unwrap_or(as_kind("str", get(v, "action")), "start") IN
    CASE action = "start" -> Ok([type |-> "Start"])
      [] action = "pause" -> Ok([type |-> "Pause"])
      [] action = "stop" -> Ok([type |-> "Stop"])
      [] action = "dock" -> Ok([type |-> "Dock"])
      [] action = "locate" -> Ok([type |-> "Locate"])
      [] action = "spot_clean" -> Ok([type |-> "SpotClean"])
      [] OTHER -> Err

\* the mapper a component of the domain calls in handle_command_bytes
from_json(domain, raw) ==
    CASE domain = "switch" -> SwitchCommandMapper_from_json(raw)
      [] domain = "light" -> LightCommandMapper_from_json(raw)
      [] domain = "hvac" -> HvacCommandMapper_from_json(raw)
      [] domain = "robotvac" -> RobotVacCommandMapper_from_json(raw)

\* an optional number in serde_json::json!: null when absent
\* a serialisation that writes an absent transition as 0
json_opt_zero(opt) == IF opt = None THEN JNum(0) ELSE JNum(opt[1])

json_opt(opt) == IF opt = None THEN JNull ELSE JNum(opt[1])

\* impl From<...Command> for CommandSet (cap/switch.rs:101-116,
\* cap/light.rs:189-228, cap/hvac.rs:183-203, cap/robotvac.rs:122-133)
CommandSet_from(domain, cmd) ==
    LET CommandSet(action, value) ==
            [action |-> action, value |-> value, correlation_id |-> None]
    IN  CASE cmd.type = "Toggle" -> CommandSet("toggle", JNull)
          [] cmd.type \in {"Set", "SetPower"} ->
                CommandSet("set", JObj([on |-> JBool(cmd.on)]))
          [] cmd.type = "SetBrightness" ->
                CommandSet("set", JObj([brightness |-> JNum(cmd.level),
                                        transition_ms |-> json_opt(cmd.transition_ms)]))
          [] cmd.type = "SetColorTemp" ->
                CommandSet("set", JObj([mireds |-> JNum(cmd.mireds),
                                        transition_ms |-> json_opt(cmd.transition_ms)]))
          [] cmd.type = "SetRgb" ->
                CommandSet("set", JObj([rgb |-> JArr(<<JNum(cmd.rgb.r), JNum(cmd.rgb.g),
                                                       JNum(cmd.rgb.b)>>),
                                        transition_ms |-> json_opt(cmd.transition_ms)]))
          [] cmd.type = "SetMode" ->
                CommandSet("set_mode", JObj([mode |-> JStr(HvacModeNames[cmd.mode])]))
          [] cmd.type = "SetTargetTemperature" ->
                CommandSet("set_temperature",
                           JObj([target_temperature_c |-> JNum(cmd.temperature)]))
          [] cmd.type = "SetFanMode" ->
                CommandSet("set_fan_mode",
                           JObj([fan_mode |-> JStr(HvacFanModeNames[cmd.fan_mode])]))
          [] domain = "robotvac" -> CommandSet(RobotVacActions[cmd.type], JNull)

\* serde_json::to_value of a CommandSet: the JSON envelope on the wire
\* (bus_contract.rs:55-60)
to_value(command_set) ==
    JObj([action |-> JStr(command_set.action), value |-> command_set.value,
          correlation_id |-> IF command_set.correlation_id = None THEN JNull
                             ELSE JStr(command_set.correlation_id[1])])

\* SwitchDescription::validate (cap/switch.rs:38-55)
SwitchDescription_validate(self, cmd) ==
    CASE cmd.type = "Set" -> IF "ONOFF" \in self.features THEN Ok(<<>>) ELSE Err
      [] cmd.type = "Toggle" -> IF "TOGGLE" \in self.features THEN Ok(<<>>) ELSE Err

\* a validate that asks every light command for ONOFF only
LightDescription_validate_onoff(self, cmd) ==
    IF "ONOFF" \in self.features THEN Ok(<<>>) ELSE Err

\* LightDescription::validate (cap/light.rs:67-98)
LightDescription_validate(self, cmd) ==
    CASE cmd.type \in {"SetPower", "Toggle"} ->
            IF "ONOFF" \in self.features THEN Ok(<<>>) ELSE Err
      [] cmd.type = "SetBrightness" ->
            IF "DIMMABLE" \in self.features THEN Ok(<<>>) ELSE Err
      [] cmd.type = "SetColorTemp" ->
            IF "COLOR_TEMP" \in self.features THEN Ok(<<>>) ELSE Err
      [] cmd.type = "SetRgb" ->
            IF "RGB" \in self.features THEN Ok(<<>>) ELSE Err

\* HvacDescription::validate (cap/hvac.rs:68-105)
HvacDescription_validate(self, cmd) ==
    CASE cmd.type = "SetMode" ->
            IF "MODES" \in self.features
            THEN IF cmd.mode = "Off" /\ "ONOFF" \notin self.features THEN Err ELSE Ok(<<>>)
            ELSE Err
      [] cmd.type = "SetTargetTemperature" ->
            IF "TARGET_TEMPERATURE" \notin self.features THEN Err
            ELSE IF self.min_temp # None /\ cmd.temperature < unwrap_or(self.min_temp, 0)
            THEN Err
            ELSE IF self.max_temp # None /\ cmd.temperature > unwrap_or(self.max_temp, 0)
            THEN Err
            ELSE Ok(<<>>)
      [] cmd.type = "SetFanMode" ->
            IF "FAN_MODES" \in self.features THEN Ok(<<>>) ELSE Err

\* the feature each robot vacuum command requires (cap/robotvac.rs:57-64)
RobotVacRequires ==
    [Start |-> "START", Pause |-> "PAUSE", Stop |-> "STOP", Dock |-> "DOCK",
     Locate |-> "LOCATE", SpotClean |-> "SPOT"]

\* RobotVacDescription::validate (cap/robotvac.rs:56-70)
RobotVacDescription_validate(self, cmd) ==
    IF RobotVacRequires[cmd.type] \in self.features THEN Ok(<<>>) ELSE Err

\* description.validate(&command) of a component of the domain
validate(domain, description, cmd) ==
    CASE domain = "switch" -> SwitchDescription_validate(description, cmd)
      [] domain = "light" -> LightDescription_validate(description, cmd)
      [] domain = "hvac" -> HvacDescription_validate(description, cmd)
      [] domain = "robotvac" -> RobotVacDescription_validate(description, cmd)

----------------------------------------------------------------------------
(* An SDK capability component (adapter-sdk/src/{switch,light,hvac,         *)
(* robotvac,sensor}.rs): spawn announces the device and the entity and      *)
(* starts the command loop; the loop handles one command payload at a time. *)

TOPIC_COMMAND_PREFIX == <<"krypin", ".", "command", ".">>

\* the topic announce_entity of the domain's component publishes on
\* (switch.rs:114, light.rs:147, hvac.rs:113, robotvac.rs:113, sensor.rs:115)
announce_entity_topic(domain) ==
    IF domain = "switch" THEN TOPIC_ENTITY_ANNOUNCE ELSE TOPIC_DEVICE_ANNOUNCE

\* ...StateMapper::to_state_update: the value of the update and its source
\* (switch.rs:150-162, light.rs:204-225, hvac.rs:198-235, robotvac.rs:136-162,
\* sensor.rs:123-148); attributes are left out
to_state_update(domain, description, entity_id, state, now) ==
    StateUpdate(entity_id,
        CASE domain = "switch" -> JBool(state.on)
          [] domain = "light" -> JBool(state.power = "On")
          [] domain = "hvac" -> JStr(HvacModeNames[state.mode])
          [] domain = "robotvac" -> JStr(state.status)
          [] domain = "sensor" -> JBool(IF description.inverted THEN ~state.on ELSE state.on),
        "attrs", now,
        Some([switch |-> "adapter-sdk:switch", light |-> "adapter-sdk:light",
              hvac |-> "adapter-sdk:hvac", robotvac |-> "adapter-sdk:robotvac",
              sensor |-> "adapter-sdk:binary-sensor"][domain]))

\* the component before spawn
NewComponent(domain, description) ==
    [domain |-> domain, description |-> description, pc |-> "new", pos |-> 0,
     cmd |-> None, state |-> None, log |-> <<>>]

\* spawn, first await: announce_device (switch.rs:84-100)
component_announce_device ==
    /\ comp.pc = "new"
    /\ publish(TOPIC_DEVICE_ANNOUNCE, to_vec("DeviceAnnounce", DeviceAnnounce("d1", None)))
    /\ comp' = [comp EXCEPT !.pc = "device_announced"]

\* spawn, second await: announce_entity (switch.rs:102-116)
component_announce_entity ==
    /\ comp.pc = "device_announced"
    /\ publish(announce_entity_topic(comp.domain),
               to_vec("EntityAnnounce", EntityAnnounce("e1", "d1")))
    /\ comp' = [comp EXCEPT !.pc = "entity_announced"]

\* spawn of a commandable component, up to its return: subscribe to the
\* entity's command topic and start the loop (switch.rs:51-63)
component_subscribe ==
    /\ comp.pc = "entity_announced"
    /\ comp.domain # "sensor"
    /\ subscribe("component", TOPIC_COMMAND_PREFIX \o <<"e1">>)
    /\ comp' = [comp EXCEPT !.pc = "running"]

\* spawn of the binary sensor, up to its return: publish the driver's
\* current state (sensor.rs:52-53, 76-83)
sensor_publish_initial(state) ==
    /\ comp.pc = "entity_announced"
    /\ comp.domain = "sensor"
    /\ \E now \in Times :
          publish(TOPIC_STATE_UPDATE_PREFIX \o <<"e1">>,
                  to_vec("StateUpdate",
                         to_state_update("sensor", comp.description, "e1", state, now)))
    /\ comp' = [comp EXCEPT !.pc = "running"]

\* a handler that hands every lifted command to the driver
handle_command_bytes_unvalidated(pos, bytes) ==
    LET raw == from_slice("Value", bytes)
        command == IF raw.tag = "ok" THEN from_json(comp.domain, raw.val) ELSE Err
    IN  IF raw.tag = "ok" /\ command.tag = "ok"
        THEN comp' = [comp EXCEPT !.pc = "applying", !.pos = pos, !.cmd = Some(command.val)]
        ELSE comp' = [comp EXCEPT !.pos = pos]

\* handle_command_bytes up to the driver call (switch.rs:74-79): the first
\* failing step returns the error, which the loop logs
handle_command_bytes(pos, bytes) ==
    LET raw == from_slice("Value", bytes)
        command == IF raw.tag = "ok" THEN from_json(comp.domain, raw.val) ELSE Err
        valid == IF command.tag = "ok"
                 THEN validate(comp.domain, comp.description, command.val) ELSE Err
    IN  IF raw.tag = "ok" /\ command.tag = "ok" /\ valid.tag = "ok"
        THEN comp' = [comp EXCEPT !.pc = "applying", !.pos = pos, !.cmd = Some(command.val)]
        ELSE comp' = [comp EXCEPT !.pos = pos]

\* a loop that takes the next command while the update of the last one is
\* still to be published
component_next_early ==
    LET r == poll_next(subs["component"]) IN
    /\ comp.pc \in {"running", "publishing"}
    /\ comp.domain # "sensor"
    /\ Unread(subs["component"]) > 0
    /\ subs' = [subs EXCEPT !["component"] = r.sub]
    /\ UNCHANGED <<chan, bus_ret>>
    /\ IF r.item # <<>>
       THEN handle_command_bytes(r.item[1], chan[r.item[1]].payload)
       ELSE UNCHANGED comp

\* the command loop is polled with unread messages in the channel
\* (switch.rs:56-60)
component_next ==
    LET r == poll_next(subs["component"]) IN
    /\ comp.pc = "running"
    /\ comp.domain # "sensor"
    /\ Unread(subs["component"]) > 0
    /\ subs' = [subs EXCEPT !["component"] = r.sub]
    /\ UNCHANGED <<chan, bus_ret>>
    /\ IF r.item # <<>>
       THEN handle_command_bytes(r.item[1], chan[r.item[1]].payload)
       ELSE UNCHANGED comp

\* a command loop that ends when the driver returns an error
apply_command_break(result) ==
    /\ comp.pc = "applying"
    /\ comp' = [comp EXCEPT
            !.pc = IF result.tag = "ok" THEN "publishing" ELSE "stopped",
            !.cmd = None,
            !.state = IF result.tag = "ok" THEN Some(result.val) ELSE None,
            !.log = Append(@, [step |-> "apply", pos |-> comp.pos, cmd |-> comp.cmd[1],
                               result |-> result])]
    /\ UNCHANGED bus_vars

\* self.driver.apply_command(command).await? (switch.rs:79): the driver
\* returns a state or an error
apply_command(result) ==
    /\ comp.pc = "applying"
    /\ comp' = [comp EXCEPT
            !.pc = IF result.tag = "ok" THEN "publishing" ELSE "running",
            !.cmd = None,
            !.state = IF result.tag = "ok" THEN Some(result.val) ELSE None,
            !.log = Append(@, [step |-> "apply", pos |-> comp.pos, cmd |-> comp.cmd[1],
                               result |-> result])]
    /\ UNCHANGED bus_vars

\* self.publish_state(state).await? (switch.rs:66-72, 80)
component_publish_state ==
    /\ comp.pc = "publishing"
    /\ \E now \in Times :
          LET update == to_state_update(comp.domain, comp.description, "e1",
                                        comp.state[1], now)
          IN  /\ publish(TOPIC_STATE_UPDATE_PREFIX \o <<"e1">>, to_vec("StateUpdate", update))
              /\ comp' = [comp EXCEPT
                      !.pc = "running", !.state = None,
                      !.log = Append(@, [step |-> "publish", pos |-> comp.pos,
                                         at |-> Len(chan) + 1, update |-> update])]

\* no component and no capability call
NoSdk ==
    /\ comp = NewComponent("none", <<>>)
    /\ cap = [op |-> "none", arg |-> <<>>, res |-> Ok(<<>>)]

\* the feature flags of each domain (cap/switch.rs:11-16, cap/light.rs:9-14,
\* cap/hvac.rs:11-16, cap/robotvac.rs:11-18)
Features ==
    [switch |-> {"ONOFF", "TOGGLE", "STATELESS", "POWER_METER"},
     light |-> {"ONOFF", "DIMMABLE", "COLOR_TEMP", "RGB"},
     hvac |-> {"ONOFF", "TARGET_TEMPERATURE", "FAN_MODES", "MODES"},
     robotvac |-> {"START", "PAUSE", "STOP", "DOCK", "LOCATE", "SPOT"}]

CapDomains == {"switch", "light", "hvac", "robotvac"}

\* the descriptions a driver may return from describe()
OptMinMireds == {None, Some(153)}
OptMaxMireds == {None, Some(500)}
OptMinTemp == {None, Some(16)}
OptMaxTemp == {None, Some(30)}
Descriptions(domain) ==
    CASE domain = "light" ->
            {[features |-> f, min_mireds |-> lo, max_mireds |-> hi] :
                f \in SUBSET Features.light, lo \in OptMinMireds, hi \in OptMaxMireds}
      [] domain = "hvac" ->
            {[features |-> f, min_temp |-> lo, max_temp |-> hi] :
                f \in SUBSET Features.hvac, lo \in OptMinTemp, hi \in OptMaxTemp}
      [] domain = "sensor" -> {[inverted |-> i] : i \in BOOLEAN}
      [] OTHER -> {[features |-> f] : f \in SUBSET Features[domain]}

\* typed commands; the canonical ones are those the types are meant to hold
\* (brightness 0..100)
Transitions == {None, Some(0), Some(400)}
LightCommands ==
    {[type |-> "SetPower", on |-> b] : b \in BOOLEAN}
    \cup {[type |-> "Toggle"]}
    \cup {[type |-> "SetBrightness", level |-> l, transition_ms |-> t] :
            l \in {0, 40, 100}, t \in Transitions}
    \cup {[type |-> "SetColorTemp", mireds |-> m, transition_ms |-> t] :
            m \in {100, 153, 300, 500, 600}, t \in Transitions}
    \cup {[type |-> "SetRgb", rgb |-> [r |-> r, g |-> 128, b |-> 255], transition_ms |-> t] :
            r \in {0, 255}, t \in Transitions}
HvacCommands ==
    {[type |-> "SetMode", mode |-> m] : m \in DOMAIN HvacModeNames}
    \cup {[type |-> "SetTargetTemperature", temperature |-> t] : t \in {-5, 15, 16, 21, 30, 31}}
    \cup {[type |-> "SetFanMode", fan_mode |-> f] : f \in DOMAIN HvacFanModeNames}
Commands(domain) ==
    CASE domain = "switch" -> {[type |-> "Set", on |-> b] : b \in BOOLEAN} \cup {[type |-> "Toggle"]}
      [] domain = "light" -> LightCommands
      [] domain = "hvac" -> HvacCommands
      [] domain = "robotvac" -> {[type |-> t] : t \in DOMAIN RobotVacActions}

\* command envelopes as a client may write them: the typed fields in
\* `value`, at the top level, or both
Envelopes ==
    {JObj([action |-> JStr("set"), value |-> v]) :
        v \in {JBool(TRUE), JBool(FALSE), JNull, JObj([on |-> JBool(TRUE)]),
               JObj([on |-> JBool(FALSE)]), JObj([brightness |-> JNum(300)]),
               JObj([mireds |-> JNum(65536 + 200), transition_ms |-> JNum(5)]),
               JObj([mode |-> JStr("cool")]), JObj([temperature |-> JNum(21)])}}
    \cup {JObj([action |-> JStr("set"), on |-> JBool(b)]) : b \in BOOLEAN}
    \cup {JObj([on |-> JBool(b)]) : b \in BOOLEAN}
    \cup {JObj([value |-> JObj([on |-> JBool(b)])]) : b \in BOOLEAN}
    \cup {JObj([action |-> JStr("set"), on |-> JBool(b), value |-> JObj([on |-> JBool(c)])]) :
            b, c \in BOOLEAN}
    \cup {JObj([action |-> JStr("set"), on |-> JBool(b), value |-> JBool(c)]) :
            b, c \in BOOLEAN}
    \cup {JObj([action |-> JStr("set"), mode |-> JStr("heat")]),
          JObj([action |-> JStr("set"), mode |-> JStr("heat"),
                value |-> JObj([mode |-> JStr("cool")])]),
          JObj([action |-> JStr("set_temperature"), target_temperature_c |-> JNum(20)]),
          JObj([action |-> JStr("set_temperature"), target_temperature_c |-> JNum(20),
                value |-> JObj([target_temperature_c |-> JNum(25)])]),
          JObj([action |-> JStr("set_mode"), value |-> JStr("dry")]),
          JObj([action |-> JStr("set"), brightness |-> JNum(40)]),
          JObj([action |-> JStr("toggle")]), JObj([action |-> JStr("dock")]),
          JObj([action |-> JStr("fly")])}

\* a capability function is applied, once, to inputs of its domain
cap_validate(domain, description, cmd) ==
    /\ cap.op = "none"
    /\ cap' = [op |-> "validate",
               arg |-> [domain |-> domain, description |-> description, cmd |-> cmd],
               res |-> validate(domain, description, cmd)]
    /\ UNCHANGED comp

cap_round_trip(domain, cmd) ==
    /\ cap.op = "none"
    /\ cap' = [op |-> "round_trip", arg |-> [domain |-> domain, cmd |-> cmd],
               res |-> from_json(domain, to_value(CommandSet_from(domain, cmd)))]
    /\ UNCHANGED comp

cap_from_json(domain, raw) ==
    /\ cap.op = "none"
    /\ cap' = [op |-> "from_json", arg |-> [domain |-> domain, raw |-> raw],
               res |-> from_json(domain, raw)]
    /\ UNCHANGED comp

CapNext ==
    \/ \E domain \in CapDomains : \E description \in Descriptions(domain) :
          \E cmd \in Commands(domain) :
              cap_validate(domain, description, cmd) /\ UNCHANGED <<bus_vars, not_sdk>>
    \/ \E domain \in CapDomains : \E cmd \in Commands(domain) :
          cap_round_trip(domain, cmd) /\ UNCHANGED <<bus_vars, not_sdk>>
    \/ \E domain \in CapDomains : \E raw \in Envelopes :
          cap_from_json(domain, raw) /\ UNCHANGED <<bus_vars, not_sdk>>

\* what the hub publishes on the entity's command topic: canonical
\* envelopes, envelopes no mapper lifts, and bytes that are not JSON
SdkCommands(domain) ==
    CASE domain = "light" ->
            {cmd \in LightCommands :
                /\ "transition_ms" \in DOMAIN cmd => cmd.transition_ms = None
                /\ "level" \in DOMAIN cmd => cmd.level = 40
                /\ "mireds" \in DOMAIN cmd => cmd.mireds \in {300, 600}
                /\ "rgb" \in DOMAIN cmd => cmd.rgb.r = 0
                /\ "on" \in DOMAIN cmd => cmd.on}
      [] domain = "hvac" ->
            {cmd \in HvacCommands :
                /\ "mode" \in DOMAIN cmd => cmd.mode = "Heat"
                /\ "temperature" \in DOMAIN cmd => cmd.temperature \in {21, 31}
                /\ "fan_mode" \in DOMAIN cmd => cmd.fan_mode = "Auto"}
      [] domain = "robotvac" -> {[type |-> t] : t \in {"Start", "Dock"}}
      [] OTHER -> Commands(domain)

\* the correlation ids a client attaches to a command
CorrelationIds == {None, Some("c1")}

CommandPayloads(domain) ==
    {to_vec("Value", to_value([CommandSet_from(domain, cmd) EXCEPT !.correlation_id = c])) :
        cmd \in SdkCommands(domain), c \in CorrelationIds}
    \cup {to_vec("Value", JObj([action |-> JStr("fly")])),
          to_vec("Value", JObj([action |-> JStr("set"), value |-> JNull])), Garbage}

\* the states a driver may return from apply_command or current_state
DriverStates(domain) ==
    CASE domain \in {"switch", "sensor"} -> {[on |-> b] : b \in BOOLEAN}
      [] domain = "light" -> {[power |-> p] : p \in {"On", "Off"}}
      [] domain = "hvac" -> {[mode |-> m] : m \in {"Off", "Heat"}}
      [] domain = "robotvac" -> {[status |-> s] : s \in {"cleaning", "docked"}}

SdkDomains == CapDomains \cup {"sensor"}

\* the descriptions of the drivers the components run with: every feature
\* and both bounds, or no feature and no bound
DriverDescriptions(domain) ==
    IF domain = "sensor" THEN Descriptions(domain)
    ELSE {d \in Descriptions(domain) :
            \/ d.features = {} /\ \A f \in DOMAIN d : f # "features" => d[f] = None
            \/ d.features = Features[domain] /\ \A f \in DOMAIN d : f # "features" => d[f] # None}

\* a component of some domain with its driver's description, an empty bus
SdkInit ==
    /\ \E domain \in SdkDomains : \E description \in DriverDescriptions(domain) :
          comp = NewComponent(domain, description)
    /\ cap = [op |-> "none", arg |-> <<>>, res |-> Ok(<<>>)]
    /\ chan = <<>>
    /\ subs = [s \in {"component"} |-> NoSub]
    /\ bus_ret = "none"

SdkNext ==
    \/ component_announce_device /\ UNCHANGED <<cap, not_sdk>>
    \/ component_announce_entity /\ UNCHANGED <<cap, not_sdk>>
    \/ component_subscribe /\ UNCHANGED <<cap, not_sdk>>
    \/ \E state \in DriverStates("sensor") :
          sensor_publish_initial(state) /\ UNCHANGED <<cap, not_sdk>>
    \/ /\ comp.pc \in {"running", "applying", "publishing"}
       /\ comp.domain # "sensor"
       /\ \E payload \in CommandPayloads(comp.domain) :
             publish(TOPIC_COMMAND_PREFIX \o <<"e1">>, payload)
       /\ UNCHANGED <<comp, cap, not_sdk>>
    \/ component_next /\ UNCHANGED <<cap, not_sdk>>
    \/ \E result \in {Ok(state) : state \in DriverStates(comp.domain)} \cup {Err} :
          apply_command(result) /\ UNCHANGED <<cap, not_sdk>>
    \/ component_publish_state /\ UNCHANGED <<cap, not_sdk>>

----------------------------------------------------------------------------
(* The request surfaces of hubd: the HTTP router with its auth layer        *)
(* (hubd/src/http) and the gRPC service (hubd/src/grpc).  A token and a     *)
(* header value are strings of characters.                                  *)

\* requests a behaviour handles
MaxReq == 3

Token1 == <<"k", "e", "y", "-", "1">>
Token2 == <<"k", "e", "y", "-", "2">>

\* AuthConfig::is_enabled (config.rs:142-144)
is_enabled(auth) == auth.tokens # <<>>

\* AuthConfig::matches (config.rs:146-148)
matches(auth, candidate) == \E i \in DOMAIN auth.tokens : auth.tokens[i] = candidate

\* str::strip_prefix
strip_prefix(opt, prefix) ==
    IF opt # None /\ starts_with(opt[1], prefix)
    THEN Some(SubSeq(opt[1], Len(prefix) + 1, Len(opt[1])))
    ELSE None

\* str::trim of a string whose white space is at its ends
RECURSIVE trim(_)
trim(str) ==
    IF str # <<>> /\ Head(str) = " " THEN trim(Tail(str))
    ELSE IF str # <<>> /\ str[Len(str)] = " " THEN trim(SubSeq(str, 1, Len(str) - 1))
    ELSE str

\* AuthenticatedUser::from_token (auth.rs:16-20): the label of the token's
\* last four characters
from_token(token) ==
    <<"token:">> \o SubSeq(token, IF Len(token) > 4 THEN Len(token) - 3 ELSE 1, Len(token))

\* require_auth (auth.rs:27-56): the middleware lets the request through
\* (Ok, with the user it attached), or answers it itself (Err)
require_auth(req) ==
    LET stripped == strip_prefix(req.authorization, <<"B", "e", "a", "r", "e", "r", " ">>)
        bearer == IF stripped = None THEN None ELSE Some(trim(stripped[1]))
        token == IF bearer # None THEN bearer ELSE req.x_api_key
    IN  IF ~is_enabled(api) THEN Ok(None)
        ELSE IF token = None THEN Err
        ELSE IF ~matches(api, token[1]) THEN Err
        ELSE Ok(Some(from_token(token[1])))

\* the surface answered a request
Respond(req, status) ==
    api' = [api EXCEPT !.n = api.n + 1, !.req = Some(req), !.status = status]

\* handlers::healthz (handlers.rs:16-18), outside the auth layer
\* (routes.rs:25)
healthz(req) ==
    /\ Respond(req, "200 OK")
    /\ UNCHANGED <<bus_vars, store_vars>>

\* handlers::get_state (handlers.rs:41-53)
http_get_state(req) ==
    /\ latest_entity_state(req.entity_id)
    /\ Respond(req, IF st_ret'.res.tag # "ok" THEN "500 Internal Server Error"
                    ELSE IF st_ret'.res.val = None THEN "404 Not Found" ELSE "200 OK")
    /\ UNCHANGED bus_vars

\* handlers::set_state (handlers.rs:70-93)
http_set_state(req, maybe_user) ==
    /\ \E now \in Times :
          set_entity_state(EntityState(req.entity_id, req.body.value, "attrs", now, now,
                                       maybe_user))
    /\ Respond(req, IF st_ret'.res.tag = "ok" THEN "200 OK" ELSE "400 Bad Request")
    /\ UNCHANGED bus_vars

\* the CommandSet both surfaces build from a request (handlers.rs:104-111,
\* grpc/mod.rs:83-87)
CommandSet_of(body) ==
    [action |-> unwrap_or(as_kind("str", get(body, "action")), "set"),
     value |-> unwrap_or(get(body, "value"), JNull),
     correlation_id |-> as_kind("str", get(body, "correlation_id"))]

\* handlers::send_command (handlers.rs:95-120)
http_send_command(req) ==
    /\ publish(TOPIC_COMMAND_PREFIX \o <<req.entity_id>>,
               to_vec("Value", to_value(CommandSet_of(req.body))))
    /\ Respond(req, "202 Accepted")
    /\ UNCHANGED store_vars

\* the router (routes.rs:11-25): /healthz, and the routes behind the layer
\* of require_auth
http_request(req) ==
    IF req.route = "healthz" THEN healthz(req)
    ELSE LET auth == require_auth(req) IN
         IF auth.tag # "ok"
         THEN Respond(req, "401 Unauthorized") /\ UNCHANGED <<bus_vars, store_vars>>
         ELSE CASE req.route = "get_state" -> http_get_state(req)
                [] req.route = "set_state" -> http_set_state(req, auth.val)
                [] req.route = "send_command" -> http_send_command(req)

\* HubSvc::get_state (grpc/mod.rs:72-79)
grpc_get_state(req) ==
    /\ latest_entity_state(req.entity_id)
    /\ Respond(req, IF st_ret'.res.tag # "ok" THEN "INTERNAL"
                    ELSE IF st_ret'.res.val = None THEN "NOT_FOUND" ELSE "OK")
    /\ UNCHANGED bus_vars

\* HubSvc::send_command (grpc/mod.rs:81-93)
grpc_send_command(req) ==
    /\ publish(TOPIC_COMMAND_PREFIX \o <<req.entity_id>>,
               to_vec("Value", to_value(CommandSet_of(req.body))))
    /\ Respond(req, "OK")
    /\ UNCHANGED store_vars

\* serve_grpc (grpc/mod.rs:30-42): the service is added to the server as it
\* is; a call reaches its method
grpc_request(req) ==
    CASE req.route = "get_state" -> grpc_get_state(req)
      [] req.route = "send_command" -> grpc_send_command(req)

\* no request surface
NoApi == api = [tokens |-> <<>>, n |-> 0, req |-> None, status |-> "none"]

\* the token lists of the configuration (config.rs:126-131)
TokenLists == {<<>>, <<Token1>>, <<Token1, Token2>>}

\* the surfaces of a hub whose configuration has some token list
ApiInit == \E tokens \in TokenLists :
    api = [tokens |-> tokens, n |-> 0, req |-> None, status |-> "none"]

\* what clients send: the Authorization and x-api-key headers (for gRPC, the
\* metadata of the same names), a route and its arguments
OptAuthorizations ==
    {None, Some(<<"B", "e", "a", "r", "e", "r", " ">> \o Token1),
     Some(<<"B", "e", "a", "r", "e", "r", " ">> \o Token2 \o <<" ">>),
     Some(<<"B", "e", "a", "r", "e", "r", " ">> \o <<"k", "e", "y">>),
     Some(<<"B", "a", "s", "i", "c", " ">> \o Token1)}
OptApiKeys == {None, Some(Token1), Some(<<"k", "e", "y">>)}
Bodies ==
    [get_state |-> {JNull},
     healthz |-> {JNull},
     set_state |-> {[value |-> "on"]},
     send_command |-> {JObj([action |-> JStr("set"), value |-> JBool(TRUE)])}]
Requests(surface, routes) ==
    {[surface |-> surface, route |-> r, authorization |-> a, x_api_key |-> k, entity_id |-> "e1", body |-> b] :
        r \in routes, a \in OptAuthorizations, k \in OptApiKeys,
        b \in UNION {Bodies[x] : x \in routes}}

ApiNext ==
    \/ /\ api.n < MaxReq
       /\ \E req \in Requests("http", {"healthz", "get_state", "set_state", "send_command"}) :
             req.body \in Bodies[req.route] /\ http_request(req)
       /\ UNCHANGED <<hub_vars, auto_vars, sdk_vars, mq>>
    \/ /\ api.n < MaxReq
       /\ \E req \in Requests("grpc", {"get_state", "send_command"}) :
             req.body \in Bodies[req.route] /\ grpc_request(req)
       /\ UNCHANGED <<hub_vars, auto_vars, sdk_vars, mq>>
    \/ upsert_device(Device("d1", None)) /\ UNCHANGED not_store
    \/ upsert_entity(Entity("e1", "d1")) /\ UNCHANGED not_store

----------------------------------------------------------------------------
(* The remote bus (adapter-mqtt/src/lib.rs) *)

\* adapter-mqtt lib.rs:75-89, the remote bus's own copy of the matcher
mqtt_topic_matches(pattern, topic) ==
    IF pattern = <<"*">> THEN TRUE
    ELSE IF pattern = topic THEN TRUE
    ELSE IF has_suffix(pattern, <<".", "*">>)
        THEN LET prefix == strip_suffix(pattern, <<".", "*">>)
             IN  topic = prefix \/ starts_with(topic, prefix \o <<".">>)
    ELSE IF has_suffix(pattern, <<"*">>)
        THEN starts_with(topic, strip_suffix(pattern, <<"*">>))
    ELSE FALSE

\* events the connection to the broker produces in a behaviour
MaxEvents == 3

\* everything but the remote bus and its channel
not_mqtt == <<store_vars, hub_vars, auto_vars, sdk_vars, api>>

\* what eventloop.poll() returns: an incoming publish, another packet or
\* notification, or a connection error
Incoming(event_kind, msg) == [event_kind |-> event_kind, msg |-> msg]
NoMsg == [topic |-> <<>>, payload |-> "x"]

\* MqttBus::publish (lib.rs:54-60): the message goes to the broker, which
\* sends it back on the client's subscription to "#"
MqttBus_publish(topic, payload) ==
    /\ mq.loop # "none"
    /\ Len(mq.log) < MaxEvents
    /\ mq' = [mq EXCEPT !.log = Append(@, Incoming("publish",
                                          [topic |-> topic, payload |-> payload]))]
    /\ bus_ret' = "ok"
    /\ UNCHANGED <<chan, subs>>

\* the connection produces a packet that is not a publish, or fails
connection_event(event_kind) ==
    /\ mq.loop # "none"
    /\ Len(mq.log) < MaxEvents
    /\ mq' = [mq EXCEPT !.log = Append(@, Incoming(event_kind, NoMsg))]
    /\ UNCHANGED bus_vars

\* a forwarder that gives up at the first error
eventloop_poll_break ==
    /\ mq.loop = "polling"
    /\ mq.next <= Len(mq.log)
    /\ LET event == mq.log[mq.next] IN
       /\ chan' = IF event.event_kind = "publish" THEN Append(chan, event.msg) ELSE chan
       /\ mq' = [mq EXCEPT !.next = @ + 1,
                           !.loop = IF event.event_kind = "error" THEN "stopped" ELSE @]
    /\ UNCHANGED <<subs, bus_ret>>

\* one turn of the forwarder's loop (lib.rs:30-46): poll returns the next
\* event; a publish is sent on the channel, an error is logged and the task
\* sleeps, anything else is ignored
eventloop_poll ==
    /\ mq.loop = "polling"
    /\ mq.next <= Len(mq.log)
    /\ LET event == mq.log[mq.next] IN
       /\ chan' = IF event.event_kind = "publish" THEN Append(chan, event.msg) ELSE chan
       /\ mq' = [mq EXCEPT !.next = @ + 1,
                           !.loop = IF event.event_kind = "error" THEN "sleeping" ELSE @]
    /\ UNCHANGED <<subs, bus_ret>>

\* tokio::time::sleep(200 ms) is over (lib.rs:42): the loop polls again
backoff_elapsed ==
    /\ mq.loop = "sleeping"
    /\ mq' = [mq EXCEPT !.loop = "polling"]
    /\ UNCHANGED bus_vars

\* MqttBus::connect has returned (lib.rs:18-49): the forwarder is polling,
\* the channel is empty and has no receiver
MqttInit ==
    /\ mq = [loop |-> "polling", log |-> <<>>, next |-> 1]
    /\ chan = <<>>
    /\ subs = [s \in BusSubIds |-> NoSub]
    /\ bus_ret = "none"

\* MqttBus::subscribe (lib.rs:62-73) is the subscribe of the in-process bus
\* on the forwarder's channel, with the same closure
MqttNext ==
    \/ \E t \in BusTopics : MqttBus_publish(t, "x") /\ UNCHANGED not_mqtt
    \/ \E event_kind \in {"other", "error"} :
          connection_event(event_kind) /\ UNCHANGED not_mqtt
    \/ eventloop_poll /\ UNCHANGED not_mqtt
    \/ backoff_elapsed /\ UNCHANGED not_mqtt
    \/ \E s \in BusSubIds, p \in BusPatterns : subscribe(s, p) /\ UNCHANGED not_bus
    \/ \E s \in BusSubIds : recv(s) /\ UNCHANGED not_bus

----------------------------------------------------------------------------
(* The matchers applied to inputs: patterns and topics are strings of at    *)
(* most MaxLen characters.                                                  *)

MaxLen == 3
Chars == {"a", "b", ".", "*"}
Strings == UNION {[1 .. n -> Chars] : n \in 0 .. MaxLen}

\* the three matchers of the system are applied, once, to a pattern and a
\* topic; the engine's through trigger_matches of an MqttTopic trigger
apply_topic_matches(pattern, topic) ==
    /\ cap.op = "none"
    /\ cap' = [op |-> "topic_matches", arg |-> [pattern |-> pattern, topic |-> topic],
               res |-> [bus |-> topic_matches(pattern, topic),
                        mqtt |-> mqtt_topic_matches(pattern, topic),
                        engine |-> trigger_matches(
                            [type |-> "mqtt_topic", pattern |-> pattern],
                            [type |-> "mqtt_message", topic |-> topic, payload |-> "on"])]]
    /\ UNCHANGED comp

\* no remote bus
NoMq == mq = [loop |-> "none", log |-> <<>>, next |-> 1]

\* neither a request surface nor a remote bus
NoExt == NoApi /\ NoMq

MatchNext ==
    \/ \E pattern \in Strings, topic \in Strings :
          apply_topic_matches(pattern, topic) /\ UNCHANGED <<bus_vars, not_sdk>>

----------------------------------------------------------------------------
(* The engine's matching functions applied to triggers, conditions and      *)
(* events of every kind, over a storage that callers write to.              *)

Crons == {"0 7 * * *", "0 22 * * *"}
OptValues == {None} \cup {Some(v) : v \in Values}

\* patterns and topics of at most two characters
ShortStrings == {str \in Strings : Len(str) <= 2}

Triggers ==
    {[type |-> "manual"], [type |-> "heartbeat"]}
    \cup {[type |-> "time", cron |-> c] : c \in Crons}
    \cup {[type |-> "state_change", entity_id |-> e, from |-> f, to |-> t] :
            e \in EntityIds, f \in OptValues, t \in OptValues}
    \cup {[type |-> "mqtt_topic", pattern |-> p] : p \in ShortStrings}

Events ==
    {[type |-> "manual"]}
    \cup {[type |-> "heartbeat", ts |-> ts] : ts \in Times}
    \cup {[type |-> "time_fired", cron |-> c] : c \in Crons}
    \cup {[type |-> "state_changed", entity_id |-> e, from |-> f, to |-> t] :
            e \in EntityIds, f \in OptValues, t \in Values}
    \cup {[type |-> "mqtt_message", topic |-> t, payload |-> [p |-> "on"]] :
            t \in ShortStrings}

Conditions ==
    {[type |-> "always"]}
    \cup {[type |-> "entity_state_equals", entity_id |-> e, value |-> v] :
            e \in EntityIds, v \in Values}

\* the states callers of the storage persist: e1 has no state
ValueStates ==
    {EntityState("e2", v, "attrs", ts, ts, Some("test")) : v \in Values, ts \in Times}

\* trigger_matches is applied, once
apply_trigger_matches(trigger, event) ==
    /\ cap.op = "none"
    /\ cap' = [op |-> "trigger_matches", arg |-> [trigger |-> trigger, event |-> event],
               res |-> trigger_matches(trigger, event)]
    /\ UNCHANGED comp

\* condition_holds is called, once, and returns
apply_condition_holds(condition, event) ==
    /\ cap.op = "none"
    /\ \E r \in condition_holds(condition, event) :
          cap' = [op |-> "condition_holds",
                  arg |-> [condition |-> condition, event |-> event], res |-> r]
    /\ UNCHANGED comp

EngineFnNext ==
    \/ \E trigger \in Triggers, event \in Events :
          apply_trigger_matches(trigger, event) /\ UNCHANGED <<bus_vars, not_sdk>>
    \/ \E condition \in Conditions, event \in Events :
          apply_condition_holds(condition, event) /\ UNCHANGED <<bus_vars, not_sdk>>
    \/ /\ cap.op = "none"
       /\ upsert_device(Device("d1", None)) /\ UNCHANGED not_store
    \/ /\ cap.op = "none"
       /\ \E e \in EntityIds : upsert_entity(Entity(e, "d1")) /\ UNCHANGED not_store
    \/ /\ cap.op = "none"
       /\ Len(states_by_entity["e2"]) < MaxStates - 1
       /\ \E state \in ValueStates : set_entity_state(state) /\ UNCHANGED not_store

----------------------------------------------------------------------------
(* The hub's automation subscriber (hubd/src/subscribers/automation.rs) and *)
(* the heartbeat producer (hubd/src/heartbeat.rs), with the engine they     *)
(* drive.  The task awaits handle_event before it takes its next message.   *)

TOPIC_HEARTBEAT == <<"krypin", ".", "hub", ".", "heartbeat">>

Heartbeat(ts) == [ts |-> ts]

\* the RFC 3339 text of a timestamp, and whether a string is one
Rfc3339(ts) == <<"T", ts>>
IsRfc3339(str) == Len(str) = 2 /\ str[1] = "T"

\* serde_json::from_slice::<Heartbeat> (automation.rs:10): the bytes of a
\* Heartbeat, or of any JSON object with a member ts that is a timestamp;
\* other members are ignored
from_slice_Heartbeat(payload) ==
    IF payload.json = "Heartbeat" THEN Ok(payload.body)
    ELSE IF payload.json # "Value" THEN Err
    ELSE LET ts == as_kind("str", get(payload.body, "ts"))
         IN  IF ts # None /\ IsRfc3339(ts[1]) THEN Ok(Heartbeat(ts[1][2])) ELSE Err

\* the task is polled for the first time: app.bus.subscribe(TOPIC_HEARTBEAT)
\* (automation.rs:8)
automation_subscribe ==
    /\ tasks["automation"] = "spawned"
    /\ subscribe("automation", TOPIC_HEARTBEAT)
    /\ tasks' = [tasks EXCEPT !["automation"] = "running"]
    /\ UNCHANGED hub_ret

\* the task is polled with unread messages in the channel (automation.rs:
\* 9-21): the next heartbeat message is decoded and handle_event is called
\* with its ts; a payload that does not decode is logged
automation_next ==
    LET r == poll_next(subs["automation"]) IN
    /\ tasks["automation"] = "running"
    /\ hub_ret.outcome # "dispatched"
    /\ Unread(subs["automation"]) > 0
    /\ subs' = [subs EXCEPT !["automation"] = r.sub]
    /\ UNCHANGED <<chan, bus_ret>>
    /\ IF r.item # <<>>
       THEN LET msg == chan[r.item[1]]
                hb == from_slice_Heartbeat(msg.payload)
            IN  IF hb.tag = "ok"
                THEN /\ handle_event([type |-> "heartbeat", ts |-> hb.val.ts])
                     /\ hub_ret' = [task |-> "automation", msg |-> msg,
                                     outcome |-> "dispatched"]
                     /\ UNCHANGED tasks
                ELSE /\ hub_ret' = [task |-> "automation", msg |-> msg,
                                     outcome |-> "decode_error"]
                     /\ UNCHANGED <<tasks, auto_vars>>
       ELSE UNCHANGED <<hub_vars, auto_vars>>

\* handle_event has returned to the task (automation.rs:12-18): an error is
\* logged; a panic of the call ends the task
automation_returned ==
    /\ tasks["automation"] = "running"
    /\ hub_ret.outcome = "dispatched"
    /\ run = Idle
    /\ hub_ret' = [hub_ret EXCEPT !.outcome = auto_ret.res.tag]
    /\ tasks' = [tasks EXCEPT !["automation"] =
            IF auto_ret.res.tag = "panic" THEN "panicked" ELSE @]

\* one turn of the producer's loop (heartbeat.rs:17-31); the first tick of a
\* tokio interval completes at once
heartbeat_tick(now) ==
    publish(TOPIC_HEARTBEAT, to_vec("Heartbeat", Heartbeat(now)))

\* automations with a Heartbeat trigger, and one without
HeartbeatLog ==
    [trigger |-> [type |-> "heartbeat"], conditions |-> <<>>, actions |-> <<Log>>,
     enabled |-> TRUE]
HeartbeatSet ==
    [trigger |-> [type |-> "heartbeat"], conditions |-> <<>>,
     actions |-> <<[type |-> "set_entity_state", entity_id |-> "e2", value |-> "on",
                    attributes |-> "attrs"]>>,
     enabled |-> TRUE]
HeartbeatIfOn ==
    [trigger |-> [type |-> "heartbeat"],
     conditions |-> <<[type |-> "entity_state_equals", entity_id |-> "e2", value |-> "on"]>>,
     actions |-> <<Log>>, enabled |-> TRUE]
HeartbeatEcho ==
    [trigger |-> [type |-> "heartbeat"], conditions |-> <<>>,
     actions |-> <<[type |-> "publish_bus_message", topic |-> TOPIC_HEARTBEAT,
                    payload |-> JObj([ts |-> JStr(Rfc3339(1))])]>>,
     enabled |-> TRUE]
HeartbeatNote ==
    [trigger |-> [type |-> "heartbeat"], conditions |-> <<>>,
     actions |-> <<[type |-> "publish_bus_message", topic |-> TOPIC_HEARTBEAT,
                    payload |-> JObj([note |-> JStr(Rfc3339(1))])]>>,
     enabled |-> TRUE]
ManualLog ==
    [trigger |-> [type |-> "manual"], conditions |-> <<>>, actions |-> <<Log>>,
     enabled |-> TRUE]
HubAutomations ==
    {HeartbeatLog, HeartbeatSet, HeartbeatIfOn, HeartbeatEcho, HeartbeatNote, ManualLog}

\* run() has spawned the producer and the subscriber task (lib.rs:17-18):
\* neither has been polled; the engine holds the automations created so far
BeatInit ==
    /\ tasks = [t \in {"automation"} |-> "spawned"]
    /\ hub_ret = [task |-> "none", msg |-> <<>>, outcome |-> "none"]
    /\ chan = <<>>
    /\ subs = [t \in {"automation"} |-> NoSub]
    /\ bus_ret = "none"
    /\ \E a \in HubAutomations, b \in {HeartbeatLog, ManualLog} :
          automations = [id \in AutomationIds |->
                IF id = "m1" THEN Some(AutomationDefinition("m1", a))
                ELSE Some(AutomationDefinition("m2", b))]
    /\ run = Idle
    /\ effects = <<>>
    /\ auto_ret = [op |-> "none", arg |-> <<>>, res |-> Ok(<<>>)]

BeatNext ==
    \/ automation_subscribe /\ UNCHANGED <<store_vars, auto_vars, sdk_vars, ext_vars>>
    \/ automation_next /\ UNCHANGED <<store_vars, sdk_vars, ext_vars>>
    \/ automation_returned /\ UNCHANGED <<bus_vars, store_vars, auto_vars, sdk_vars, ext_vars>>
    \/ \E now \in Times : heartbeat_tick(now) /\ UNCHANGED not_bus
    \/ publish(TOPIC_HEARTBEAT, Garbage) /\ UNCHANGED not_bus
    \/ handle_event_next /\ UNCHANGED not_auto
    \/ execute_action
    \/ upsert_device(Device("d1", None)) /\ UNCHANGED not_store
    \/ upsert_entity(Entity("e2", "d1")) /\ UNCHANGED not_store

----------------------------------------------------------------------------
(* Specifications *)

\* the in-process bus with two test subscriptions; no storage is used
InitBus == BusInit /\ StoreInit("inmem") /\ NoHub /\ AutoInit /\ NoSdk /\ NoExt

SpecBus == InitBus /\ [][BusNext]_vars

\* a storage of either kind and callers of its referential operations
StorageKinds == {"inmem", "postgres"}

InitStore == BusInit /\ NoHub /\ AutoInit /\ NoSdk /\ NoExt /\ \E k \in StorageKinds : StoreInit(k)

SpecStorage == InitStore /\ [][RefNext]_vars

\* a storage of either kind and callers of its state-history operations
SpecHistory == InitStore /\ [][HistNext]_vars

\* the hub's subscriber tasks on the in-process bus, with a storage of
\* either kind, and adapters publishing
InitHub == HubInit /\ AutoInit /\ NoSdk /\ NoExt /\ \E k \in StorageKinds : StoreInit(k)

SpecHub == InitHub /\ [][HubNext]_vars

\* the automation engine with its store, a storage of either kind and the
\* in-process bus, and the callers of its API
InitAuto == BusInit /\ NoHub /\ AutoInit /\ NoSdk /\ NoExt /\ \E k \in StorageKinds : StoreInit(k)

SpecAuto == InitAuto /\ [][AutoNext]_vars

\* the capability functions applied to inputs of their domains
InitCap == BusInit /\ StoreInit("inmem") /\ NoHub /\ AutoInit /\ NoSdk /\ NoExt

SpecCap == InitCap /\ [][CapNext]_vars

\* one SDK component on an in-process bus, the hub sending it commands
InitSdk == SdkInit /\ StoreInit("inmem") /\ NoHub /\ AutoInit /\ NoExt

SpecSdk == InitSdk /\ [][SdkNext]_vars

\* the HTTP and gRPC surfaces of a hub with a storage of either kind and the
\* in-process bus
InitApi == BusInit /\ NoHub /\ AutoInit /\ NoSdk /\ ApiInit /\ NoMq
               /\ \E k \in StorageKinds : StoreInit(k)

SpecApi == InitApi /\ [][ApiNext]_vars

\* the topic matchers applied to patterns and topics
InitMatch == BusInit /\ StoreInit("inmem") /\ NoHub /\ AutoInit /\ NoSdk /\ NoExt

SpecMatch == InitMatch /\ [][MatchNext]_vars

\* the remote bus after connect, its connection and its subscribers
InitMqtt == MqttInit /\ StoreInit("inmem") /\ NoHub /\ AutoInit /\ NoSdk /\ NoApi

SpecMqtt == InitMqtt /\ [][MqttNext]_vars

\* the runtime schedules the forwarder task, its sleep ends, and the owners
\* of the subscriptions keep polling their streams
SpecMqttFair ==
    /\ InitMqtt /\ [][MqttNext]_vars
    /\ WF_vars(eventloop_poll /\ UNCHANGED not_mqtt)
    /\ WF_vars(backoff_elapsed /\ UNCHANGED not_mqtt)
    /\ \A s \in BusSubIds : WF_vars(recv(s) /\ UNCHANGED not_bus)

\* the hub's automation subscriber, the heartbeat producer and the engine,
\* with a storage of either kind
InitBeat == BeatInit /\ NoSdk /\ NoExt /\ \E k \in StorageKinds : StoreInit(k)

SpecBeat == InitBeat /\ [][BeatNext]_vars

\* the engine's matching functions over a storage of either kind
InitEngineFn == BusInit /\ NoHub /\ AutoInit /\ NoSdk /\ NoExt /\ \E k \in StorageKinds : StoreInit(k)

SpecEngineFn == InitEngineFn /\ [][EngineFnNext]_vars

----------------------------------------------------------------------------
(* Properties of the bus *)

OutSet(sub) == {sub.out[i] : i \in DOMAIN sub.out}

\* C1: the messages a subscription yields appear in the order in which the
\* bus accepted their publish calls: the positions (in the channel's send
\* order) of the yielded messages are strictly increasing, whatever was
\* skipped by the filter or lost to overflow in between.
C1_PublishOrderIsDeliveryOrder ==
    \A s \in DOMAIN subs :
        \A i, j \in DOMAIN subs[s].out :
            i < j => subs[s].out[i] < subs[s].out[j]

\* a subscription that lost a message to overflow, skipped one by its
\* filter, and yielded two messages
C1_Witness ==
    \E s \in DOMAIN subs :
        /\ Len(subs[s].out) >= 2
        /\ subs[s].lost # {}
        /\ \E i \in (subs[s].created + 1) .. (subs[s].next - 1) :
              i \notin subs[s].lost /\ i \notin OutSet(subs[s])

\* C2: a subscription yields a message only if its topic matches the
\* pattern and it was published after the subscription was created, and
\* yields each published message at most once; a subscriber to sensor.*
\* never gets a message published on other.
C2_OnlyMatchingOnlyLaterAtMostOnce ==
    \A s \in DOMAIN subs :
        LET sub == subs[s] IN
        /\ \A i \in DOMAIN sub.out :
              /\ topic_matches(sub.pattern, chan[sub.out[i]].topic)
              /\ sub.out[i] > sub.created
              /\ sub.pattern = Pat_sensor_star => chan[sub.out[i]].topic # Str_other
        /\ \A i, j \in DOMAIN sub.out : sub.out[i] = sub.out[j] => i = j

\* a subscriber to sensor.*, created after a first publish, that has read
\* past a message on other and yielded exactly the one on sensor.temp
C2_Witness ==
    \E s \in DOMAIN subs :
        LET sub == subs[s] IN
        /\ sub.pattern = Pat_sensor_star
        /\ sub.created > 0
        /\ Len(sub.out) = 1
        /\ chan[sub.out[1]].topic = Str_sensor_temp
        /\ \E i \in (sub.created + 1) .. (sub.next - 1) : chan[i].topic = Str_other

\* publish is enabled whatever the subscribers have left unread (up to the
\* model's budget of publish calls)
C3_PublishNeverWaits ==
    Len(chan) < MaxPub => \A t \in BusTopics : ENABLED publish(t, "x")

\* every message a subscription has passed is either yielded, filtered out
\* or recorded as lost to overflow
C3_NothingLostSilently ==
    \A s \in DOMAIN subs :
        LET sub == subs[s]
            seen == (sub.created + 1) .. (sub.next - 1)
        IN  IsSub(s) =>
            /\ sub.lost \subseteq seen
            /\ OutSet(sub) \cap sub.lost = {}
            /\ \A i \in seen \ sub.lost :
                  topic_matches(sub.pattern, chan[i].topic) => i \in OutSet(sub)

\* the stream of a subscription with unread messages can always be polled
C3_StreamStaysOpen ==
    \A s \in DOMAIN subs :
        (IsSub(s) /\ Unread(subs[s]) > 0) => ENABLED recv(s)

\* a step in which a subscription loses messages: it was more than Cap
\* behind, it loses exactly its oldest unread messages and keeps the newest
\* Cap, and no other subscription changes
C3_LossStep ==
    \A s \in DOMAIN subs :
        subs'[s].lost # subs[s].lost =>
            /\ Unread(subs[s]) > Cap
            /\ subs'[s].lost \ subs[s].lost = subs[s].next .. (Len(chan) - Cap)
            /\ subs'[s].next = Len(chan) - Cap + 1
            /\ IsSub(s)'
            /\ \A o \in DOMAIN subs : o # s => subs'[o] = subs[o]

\* C3: publish never waits for a subscriber; a subscriber more than the
\* buffer capacity behind loses only its own oldest unread messages, its
\* stream stays open and continues with the newer ones, and no other
\* subscriber loses anything.
C3_SlowSubscriberDropsOldest ==
    /\ [](C3_PublishNeverWaits /\ C3_NothingLostSilently /\ C3_StreamStaysOpen)
    /\ [][C3_LossStep]_vars

\* one subscription lost messages and then yielded a newer one, while
\* another subscription, created no later, lost nothing and yielded every
\* message
C3_Witness ==
    \E s, o \in DOMAIN subs :
        /\ s # o
        /\ IsSub(s) /\ IsSub(o)
        /\ subs[s].lost # {}
        /\ subs[s].out # <<>>
        /\ subs[o].created <= subs[s].created
        /\ subs[o].lost = {}
        /\ subs[o].pattern = Pat_star
        /\ Len(subs[o].out) = Len(chan) - subs[o].created
        /\ Len(chan) > Cap

----------------------------------------------------------------------------
(* Properties of the storage *)

Range(v) == {v[i] : i \in DOMAIN v}

\* every stored child record references a stored parent record
RefIntegrity ==
    /\ \A id \in AreaIds :
          (areas[id] # None /\ areas[id][1].parent # None)
              => areas[areas[id][1].parent[1]] # None
    /\ \A id \in DeviceIds :
          (devices[id] # None /\ devices[id][1].area # None)
              => areas[devices[id][1].area[1]] # None
    /\ \A id \in EntityIds :
          entities[id] # None => devices[entities[id][1].device_id] # None
    /\ \A id \in EntityIds :
          states_by_entity[id] # <<>> => entities[id] # None

\* a storage write that names a parent: while the parent is absent the call
\* returns an error and changes nothing; once it is stored the same call
\* returns ok and stores the record
C4_WriteStep ==
    LET r == st_ret'
        unchanged == UNCHANGED <<areas, devices, entities, states_by_entity>>
    IN  /\ (r.op = "upsert_area" /\ r.arg.parent # None) =>
              IF areas[r.arg.parent[1]] = None
              THEN r.res = Err /\ unchanged
              ELSE r.res = Ok(<<>>) /\ areas'[r.arg.id] = Some(r.arg)
        /\ (r.op = "upsert_device" /\ r.arg.area # None) =>
              IF areas[r.arg.area[1]] = None
              THEN r.res = Err /\ unchanged
              ELSE r.res = Ok(<<>>) /\ devices'[r.arg.id] = Some(r.arg)
        /\ r.op = "upsert_entity" =>
              IF devices[r.arg.device_id] = None
              THEN r.res = Err /\ unchanged
              ELSE r.res = Ok(<<>>) /\ entities'[r.arg.id] = Some(r.arg)
        /\ r.op = "set_entity_state" =>
              IF entities[r.arg.entity_id] = None
              THEN r.res = Err /\ unchanged
              ELSE r.res = Ok(<<>>) /\ r.arg \in Range(states_by_entity'[r.arg.entity_id])

\* C4: every storage write enforces referential integrity: with the
\* referenced record absent it returns an error and leaves the storage
\* unchanged, with it stored the identical call succeeds; so every stored
\* child references a stored parent.
C4_ReferentialIntegrityEnforced ==
    []RefIntegrity /\ [][C4_WriteStep]_vars

\* C5: on every implementation upsert_area with parent None and
\* upsert_device with area None return ok and store the record, get_area /
\* get_device return what is stored, and no later call finds the storage
\* unusable.
C5_RootRecordsAreAccepted ==
    LET r == st_ret IN
    /\ r.res.tag # "panic"
    /\ (r.op = "upsert_area" /\ r.arg.parent = None) =>
          r.res = Ok(<<>>) /\ areas[r.arg.id] = Some(r.arg)
    /\ (r.op = "upsert_device" /\ r.arg.area = None) =>
          r.res = Ok(<<>>) /\ devices[r.arg.id] = Some(r.arg)
    /\ r.op = "get_area" => r.res = Ok(areas[r.arg.id])
    /\ r.op = "get_device" => r.res = Ok(devices[r.arg.id])

\* C6: latest_entity_state returns the entity's stored record with the
\* greatest last_updated, and None exactly when the entity has no record.
C6_LatestIsMaxLastUpdated ==
    LET r == st_ret IN
    r.op = "latest_entity_state" =>
        LET rows == states_by_entity[r.arg.id] IN
        /\ r.res.tag = "ok"
        /\ r.res.val = None <=> rows = <<>>
        /\ r.res.val # None =>
              /\ r.res.val[1] \in Range(rows)
              /\ \A q \in Range(rows) : q.last_updated <= r.res.val[1].last_updated

\* C7: once set_entity_state(s) has returned ok (s is stored), a
\* latest_entity_state call for s's entity returns s or a strictly later
\* record (one with a greater last_updated, or one stored after s), never
\* None and never an older record.
C7_LatestAfterSet ==
    LET r == st_ret IN
    r.op = "latest_entity_state" =>
        LET rows == states_by_entity[r.arg.id] IN
        \A i \in DOMAIN rows :
            /\ r.res.tag = "ok"
            /\ r.res.val # None
            /\ \/ r.res.val[1] = rows[i]
               \/ r.res.val[1].last_updated > rows[i].last_updated
               \/ \E j \in DOMAIN rows : j > i /\ rows[j] = r.res.val[1]

\* the ways to find the records of `h`, each at its own place, in `v`
Placements(h, v) ==
    {f \in [DOMAIN h -> DOMAIN v] :
        /\ \A i, j \in DOMAIN h : f[i] = f[j] => i = j
        /\ \A i \in DOMAIN h : v[f[i]] = h[i]}

\* C9: entity_state_history(id, since, limit) returns min(limit, n) of the
\* entity's n records with last_changed >= since (all when since is None),
\* the most recent ones, most recent first.
C9_HistoryMostRecentFirst ==
    LET r == st_ret IN
    r.op = "entity_state_history" =>
        LET v == filter_since(states_by_entity[r.arg.id], r.arg.since)
            h == r.res.val
        IN  /\ r.res.tag = "ok"
            /\ Len(h) = (IF Len(v) > r.arg.limit THEN r.arg.limit ELSE Len(v))
            /\ \A i, j \in DOMAIN h :
                  i < j => h[i].last_updated >= h[j].last_updated
            /\ \E f \in Placements(h, v) :
                  \A k \in DOMAIN v : \A i \in DOMAIN h :
                      (\A m \in DOMAIN h : f[m] # k)
                          => v[k].last_updated <= h[i].last_updated

----------------------------------------------------------------------------
(* Properties of the hub's state subscriber *)

\* the state subscriber handled a decodable StateUpdate last and stored it
StateUpdateStored == hub_ret.task = "state" /\ hub_ret.outcome = "ok"

\* the StateUpdate the state subscriber handled last
LastUpdate == hub_ret.msg.payload.body

\* the record the claim expects for a StateUpdate
RecordOf(u) == EntityState(u.entity_id, u.value, u.attributes, u.ts, u.ts, u.source)

\* the stored records of an entity carry pairwise different last_updated
DistinctTimestamps(rows) ==
    \A i, j \in DOMAIN rows : rows[i].last_updated = rows[j].last_updated => i = j

\* the state subscriber is handed a StateUpdate in this step
StateUpdateHandled ==
    /\ subs'["state"].out # subs["state"].out
    /\ hub_ret'.task = "state"
    /\ hub_ret'.outcome # "decode_error"

\* a StateUpdate for an entity that is registered is stored
C8_RegisteredIsStored ==
    StateUpdateHandled /\ entities[hub_ret'.msg.payload.body.entity_id] # None
        => hub_ret'.outcome = "ok"

\* C8 as stated: once the state subscriber has processed a StateUpdate with
\* timestamp ts for a registered entity, latest_entity_state of the entity is
\* the record with last_updated = last_changed = ts and the update's value,
\* attributes and source, in whatever order updates with different
\* timestamps arrive.
C8_LatestIsLastProcessed ==
    (StateUpdateStored /\ DistinctTimestamps(states_by_entity[LastUpdate.entity_id])) =>
        \A r \in latest_results(LastUpdate.entity_id) : r = Ok(Some(RecordOf(LastUpdate)))

\* after a stored StateUpdate with timestamp ts the latest state is at least
\* as new as ts, and it is the update's record when that is the newest
C8_LatestCoversUpdate ==
    StateUpdateStored =>
        LET u == LastUpdate
            rows == states_by_entity[u.entity_id]
        IN  \A r \in latest_results(u.entity_id) :
                /\ RecordOf(u) \in Range(rows)
                /\ r.tag = "ok" /\ r.val # None
                /\ r.val[1].last_updated >= u.ts
                /\ (\A i \in DOMAIN rows :
                        rows[i] = RecordOf(u) \/ rows[i].last_updated < u.ts)
                    => r.val = Some(RecordOf(u))

\* C8 (amended): once the state subscriber has processed a StateUpdate with
\* timestamp ts for a registered entity, the update is stored and
\* latest_entity_state of the entity has last_updated >= ts; when every other
\* record stored for the entity has a last_updated below ts, it is the record
\* with last_updated = last_changed = ts and the update's value, attributes
\* and source.
C8_LatestAfterStateUpdate ==
    []C8_LatestCoversUpdate /\ [][C8_RegisteredIsStored]_vars

\* the state subscriber stored an update that is newer than an earlier record
C8_Witness ==
    /\ StateUpdateStored
    /\ \E i \in DOMAIN states_by_entity[LastUpdate.entity_id] :
          states_by_entity[LastUpdate.entity_id][i].last_updated < LastUpdate.ts
    /\ \A i \in DOMAIN states_by_entity[LastUpdate.entity_id] :
          \/ states_by_entity[LastUpdate.entity_id][i] = RecordOf(LastUpdate)
          \/ states_by_entity[LastUpdate.entity_id][i].last_updated < LastUpdate.ts

----------------------------------------------------------------------------
(* Properties of the automation engine *)

\* C10: no action of an automation whose enabled flag is false is executed,
\* for any trigger event and through any entry point of the engine
\* (handle_event or test_automation): every action that was executed
\* belonged to an automation that was enabled when the action ran.
C10_DisabledNeverRuns ==
    \A i \in DOMAIN effects : effects[i].enabled

\* an action of the automation that handle_event is running fails, and the
\* call returns
ActionFailsInHandleEvent ==
    /\ run.op = "handle_event"
    /\ run.acts # <<>>
    /\ run'.op = "idle"

\* an automation that handle_event has to run for the event
MustRun(automation, event) ==
    /\ automation.enabled
    /\ trigger_matches(automation.trigger, event)
    /\ \A c \in conditions_hold(automation.conditions, event) : c = Ok(TRUE)

\* C11: when an action of one automation fails during handle_event(e), the
\* remaining actions of that automation are skipped, and every other enabled
\* automation whose trigger matches e and whose conditions hold is still
\* evaluated and run, wherever it stands in the listing: the call does not
\* end while such an automation is still waiting in its listing.
C11_FailureSparesSiblings ==
    [][ActionFailsInHandleEvent =>
            /\ effects' = effects
            /\ \A i \in DOMAIN run.todo : ~MustRun(run.todo[i], run.event)]_vars

\* test_automation returns without having started the actions
TestReturnsEarly ==
    /\ run = Idle
    /\ run' = Idle
    /\ auto_ret' # auto_ret
    /\ auto_ret'.op = "test_automation"

\* test_automation returns after execute_actions
TestReturnsLate ==
    /\ run.op = "test_automation"
    /\ run'.op = "idle"

\* the reason test_automation(id, event) has to give, by precedence; None
\* when the automation is to be executed
ReasonsFor(id, event) ==
    IF automations[id] = None THEN {Some("automation not found")}
    ELSE IF ~trigger_matches(automations[id][1].trigger, event)
    THEN {Some("trigger did not match")}
    ELSE {IF c.val THEN None ELSE Some("conditions failed") :
            c \in {r \in conditions_hold(automations[id][1].conditions, event) : r.tag = "ok"}}

\* the last entries of the effects are the actions of automation id, in
\* order, run by test_automation
AllActionsRan(id) ==
    LET actions == automations[id][1].actions
        n == Len(actions)
        base == Len(effects) - n
    IN  /\ base >= 0
        /\ \A k \in 1 .. n :
              /\ effects[base + k].id = id
              /\ effects[base + k].idx = k
              /\ effects[base + k].type = actions[k].type
              /\ effects[base + k].via = "test_automation"

\* a step in which test_automation returns a TestRun, early or late
C12_Step ==
    LET id == auto_ret'.arg[1]
        event == auto_ret'.arg[2]
        test_run == auto_ret'.res.val
    IN  /\ TestReturnsEarly /\ auto_ret'.res.tag = "ok" =>
              /\ ~test_run.executed
              /\ test_run.automation_id = id
              /\ test_run.reason # None
              /\ test_run.reason \in ReasonsFor(id, event)
              /\ UNCHANGED <<chan, areas, devices, entities, states_by_entity>>
        /\ TestReturnsLate /\ auto_ret'.res.tag = "ok" =>
              /\ test_run = TestRun(id, TRUE, None)
              /\ automations[id] # None
              /\ trigger_matches(automations[id][1].trigger, event)
              /\ AllActionsRan(id)
        /\ TestReturnsLate /\ auto_ret'.res.tag # "ok" => UNCHANGED effects

\* C12: test_automation(id, event) returns executed = false with the reason
\* "automation not found", else "trigger did not match", else "conditions
\* failed", in that precedence, and in these cases writes nothing to the
\* storage and publishes nothing; it returns executed = true with no reason
\* only once every action of the automation has run.
C12_TestRunReasons == [][C12_Step]_vars

\* a test run has returned executed = true after a storage write of its
\* automation, and an earlier effect shows another action ran before
C12_WitnessExecuted ==
    /\ auto_ret.op = "test_automation"
    /\ auto_ret.res.tag = "ok"
    /\ auto_ret.res.val.executed
    /\ Len(effects) >= 2
    /\ effects[Len(effects) - 1].type = "set_entity_state"
    /\ effects[Len(effects)].via = "test_automation"

\* C13: a hub subscriber task keeps running after a message whose decoding
\* or storage write fails, so that it receives and processes the valid
\* messages that follow on its topic: the task that handled the last
\* message, whatever the outcome, is still running.
C13_TaskSurvivesBadMessage ==
    hub_ret.task # "none" => tasks[hub_ret.task] = "running"

\* the device and entity tasks subscribed before the adapter published, each
\* has been handed its announce message, and every task is still running
AnnouncesHandled ==
    /\ \A t \in HubTasks : tasks[t] = "running"
    /\ subs["device"].created = 0
    /\ subs["entity"].created = 0
    /\ 1 \in OutSet(subs["device"])
    /\ 2 \in OutSet(subs["entity"])

\* C14: DeviceAnnounce{id = D} and then EntityAnnounce{id = E, device_id = D}
\* are published while the subscribers run; whatever the order in which the
\* device task and the entity task are scheduled, get_device(D) and
\* get_entity(E) resolve to the announced records once both tasks have handled
\* their message.
C14_AnnouncedRecordsResolve ==
    AnnouncesHandled =>
        /\ devices["d1"] = Some(Device("d1", None))
        /\ entities["e1"] = Some(Entity("e1", "d1"))

\* the positions in the channel of the messages on the entity's state topic
StateUpdatePositions ==
    {i \in DOMAIN chan : chan[i].topic = TOPIC_STATE_UPDATE_PREFIX \o <<"e1">>}

\* the driver was called only with a command that the payload at e.pos
\* decodes to, that its mapper lifts it to and that the description accepts
AppliedOnlyValidated(e) ==
    LET bytes == chan[e.pos].payload
        raw == from_slice("Value", bytes)
    IN  /\ chan[e.pos].topic = TOPIC_COMMAND_PREFIX \o <<"e1">>
        /\ raw.tag = "ok"
        /\ from_json(comp.domain, raw.val) = Ok(e.cmd)
        /\ validate(comp.domain, comp.description, e.cmd).tag = "ok"

\* the publish recorded at log[i] directly follows the successful apply of the
\* same command and carries the state the driver returned
PublishedAfterApply(i) ==
    LET e == comp.log[i] IN
    /\ i > 1
    /\ comp.log[i - 1].step = "apply"
    /\ comp.log[i - 1].pos = e.pos
    /\ comp.log[i - 1].result.tag = "ok"
    /\ e.update = to_state_update(comp.domain, comp.description, "e1",
                                  comp.log[i - 1].result.val, e.update.ts)
    /\ e.at > e.pos
    /\ chan[e.at].payload.json = "StateUpdate"
    /\ chan[e.at].payload = to_vec("StateUpdate", e.update)

\* the successful apply recorded at log[i] is followed by its publish, or the
\* publish is the component's next step
ApplyIsPublished(i) ==
    IF i = Len(comp.log) THEN comp.pc = "publishing"
    ELSE comp.log[i + 1].step = "publish" /\ comp.log[i + 1].pos = comp.log[i].pos

\* C15: a component runs decode, lift, validate, apply, publish in this
\* order for each command payload: the driver's apply is called only for a
\* command that decoded, lifted and passed validate, at most once per payload;
\* one StateUpdate built from the state the driver returned is published on
\* krypin.state.update.<entity> for each successful apply, and no other.
C15_CommandPipeline ==
    comp.domain \in CapDomains =>
        /\ \A i \in DOMAIN comp.log :
              /\ comp.log[i].step = "apply" => AppliedOnlyValidated(comp.log[i])
              /\ comp.log[i].step = "apply" /\ comp.log[i].result.tag = "ok" =>
                    ApplyIsPublished(i)
              /\ comp.log[i].step = "publish" => PublishedAfterApply(i)
              /\ \A j \in DOMAIN comp.log :
                    comp.log[i].step = comp.log[j].step /\ comp.log[i].pos = comp.log[j].pos
                        => i = j
        /\ StateUpdatePositions =
              {comp.log[i].at : i \in {j \in DOMAIN comp.log : comp.log[j].step = "publish"}}
        /\ comp.pc = "applying" =>
              AppliedOnlyValidated([pos |-> comp.pos, cmd |-> comp.cmd[1]])

\* a command was applied, its state update was published and the component
\* is back in its loop
C15_Witness ==
    /\ comp.domain \in CapDomains
    /\ Len(comp.log) = 2
    /\ comp.log[2].step = "publish"
    /\ comp.pc = "running"
    /\ StateUpdatePositions # {}

\* ---- C16 ----
\* the positions of the channel that hold a payload on a topic
PublishedOn(topic, payload) ==
    {i \in DOMAIN chan : chan[i].topic = topic /\ chan[i].payload = payload}

\* C16: once spawn of a component of any domain has made its two announces,
\* the channel holds the component's DeviceAnnounce on krypin.device.announce
\* and exactly one EntityAnnounce of it on krypin.entity.announce, which is
\* what a subscriber to krypin.entity.announce receives.
C16_AnnouncesOnCanonicalTopics ==
    comp.pc \notin {"new", "device_announced"} =>
        /\ PublishedOn(TOPIC_DEVICE_ANNOUNCE,
                       to_vec("DeviceAnnounce", DeviceAnnounce("d1", None))) # {}
        /\ Cardinality(PublishedOn(TOPIC_ENTITY_ANNOUNCE,
                                   to_vec("EntityAnnounce", EntityAnnounce("e1", "d1")))) = 1

\* ---- C17 ----
\* the feature bit a command is documented to need
RequiredFeature(domain, cmd) ==
    CASE domain = "switch" -> [Set |-> "ONOFF", Toggle |-> "TOGGLE"][cmd.type]
      [] domain = "light" ->
            [SetPower |-> "ONOFF", Toggle |-> "ONOFF", SetBrightness |-> "DIMMABLE",
             SetColorTemp |-> "COLOR_TEMP", SetRgb |-> "RGB"][cmd.type]
      [] domain = "hvac" ->
            [SetMode |-> "MODES", SetTargetTemperature |-> "TARGET_TEMPERATURE",
             SetFanMode |-> "FAN_MODES"][cmd.type]
      [] domain = "robotvac" ->
            [Start |-> "START", Pause |-> "PAUSE", Stop |-> "STOP", Dock |-> "DOCK",
             Locate |-> "LOCATE", SpotClean |-> "SPOT"][cmd.type]

\* C17: in every domain, for every feature set and every command, validate
\* returns an error whenever the feature bit the command requires is absent
\* from the description's features.
C17_MissingFeatureRejected ==
    cap.op = "validate" =>
        (RequiredFeature(cap.arg.domain, cap.arg.cmd) \notin cap.arg.description.features
            => cap.res = Err)

\* a light with only ONOFF was asked for a brightness and refused
C17_Witness ==
    /\ cap.op = "validate"
    /\ cap.arg.domain = "light"
    /\ cap.arg.description.features = {"ONOFF"}
    /\ cap.arg.cmd.type = "SetBrightness"
    /\ cap.res = Err

\* ---- C18 ----
\* the numeric argument of a command and the bounds its description declares
BoundedArgument(arg) ==
    CASE arg.domain = "hvac" /\ arg.cmd.type = "SetTargetTemperature" ->
            Some([x |-> arg.cmd.temperature, lo |-> arg.description.min_temp,
                  hi |-> arg.description.max_temp, feature |-> "TARGET_TEMPERATURE"])
      [] arg.domain = "light" /\ arg.cmd.type = "SetColorTemp" ->
            Some([x |-> arg.cmd.mireds, lo |-> arg.description.min_mireds,
                  hi |-> arg.description.max_mireds, feature |-> "COLOR_TEMP"])
      [] OTHER -> None

OutOfBounds(b) ==
    \/ b.lo # None /\ b.x < b.lo[1]
    \/ b.hi # None /\ b.x > b.hi[1]

\* C18: validate rejects an HVAC SetTargetTemperature below min_temp or above
\* max_temp and a light SetColorTemp below min_mireds or above max_mireds,
\* when the bound is present, and accepts a value inside the bounds when the
\* feature bit is present.
C18_OutOfBoundsRejected ==
    cap.op = "validate" /\ BoundedArgument(cap.arg) # None =>
        LET b == BoundedArgument(cap.arg)[1]
        IN  /\ OutOfBounds(b) => cap.res = Err
            /\ ~OutOfBounds(b) /\ b.feature \in cap.arg.description.features
                  => cap.res = Ok(<<>>)

\* ---- C19 ----
\* C19: for every canonical typed command c of every domain, lifting the
\* envelope of c's CommandSet through the domain's command mapper yields c
\* again, an absent transition_ms included.
C19_RoundTrip ==
    cap.op = "round_trip" => cap.res = Ok(cap.arg.cmd)

\* a light command without transition_ms went through the round trip
C19_Witness ==
    /\ cap.op = "round_trip"
    /\ cap.arg.domain = "light"
    /\ cap.arg.cmd.type = "SetColorTemp"
    /\ cap.arg.cmd.transition_ms = None
    /\ cap.res.tag = "ok"

\* ---- C20 ----
\* where the typed fields of an envelope are to be read: its `value` member
\* when present, the top-level object otherwise
FieldsOf(raw) == unwrap_or(get(raw, "value"), raw)

ActionOf(raw) == unwrap_or(as_kind("str", get(raw, "action")), "set")

\* the power an envelope asks for: a boolean `value`, or the member `on` of
\* the object the fields are read from
PowerOf(raw) ==
    IF get(raw, "value") # None /\ FieldsOf(raw).jkind = "bool"
    THEN Some(FieldsOf(raw).jval)
    ELSE as_kind("bool", get(FieldsOf(raw), "on"))

Lifted(command) == cap.res.tag = "ok" /\ cap.res.val = command

\* C20: the switch, light and HVAC mappers take the typed fields from the
\* envelope's `value` when it is present and from the top-level object only
\* when it is absent; for switch and light power a boolean `value` and an
\* object `value` with member `on` yield the same command.
C20_FieldsFromValueFirst ==
    cap.op = "from_json" =>
        LET raw == cap.arg.raw
            mode == parse_name(HvacModeNames, get(FieldsOf(raw), "mode"))
            temp == as_kind("num", get(FieldsOf(raw), "target_temperature_c"))
        IN  /\ cap.arg.domain = "switch" /\ ActionOf(raw) # "toggle" /\ PowerOf(raw) # None
                  => Lifted([type |-> "Set", on |-> PowerOf(raw)[1]])
            /\ cap.arg.domain = "light" /\ ActionOf(raw) # "toggle" /\ PowerOf(raw) # None
                  => Lifted([type |-> "SetPower", on |-> PowerOf(raw)[1]])
            /\ cap.arg.domain = "hvac" /\ ActionOf(raw) = "set" /\ mode # None
                  => Lifted([type |-> "SetMode", mode |-> mode[1]])
            /\ cap.arg.domain = "hvac" /\ ActionOf(raw) = "set_temperature" /\ temp # None
                  => Lifted([type |-> "SetTargetTemperature", temperature |-> temp[1]])

\* ---- C21 ----
\* the prefixes of a string and what follows each of them
Splits(s) == {<<SubSeq(s, 1, n), SubSeq(s, n + 1, Len(s))>> : n \in 0 .. Len(s)}

\* a topic starts with a prefix: something follows the prefix
Begins(t, prefix) == \E sp \in Splits(t) : sp[1] = prefix

\* the five rules of the pattern language
FiveRules(p, t) ==
    \/ p = <<"*">>
    \/ p = t
    \/ \E sp \in Splits(p) :
          sp[2] = <<".", "*">> /\ (t = sp[1] \/ Begins(t, sp[1] \o <<".">>))
    \/ \E sp \in Splits(p) : sp[2] = <<"*">> /\ Begins(t, sp[1])

\* C21: the matcher of the in-process bus, of the remote bus and of the
\* engine's MqttTopic trigger each compute the five-rule function for every
\* pattern and topic; in particular "*" matches every topic and every
\* pattern matches itself.
C21_MatchersAgree ==
    cap.op = "topic_matches" =>
        LET p == cap.arg.pattern
            t == cap.arg.topic
            all(b) == cap.res.bus = b /\ cap.res.mqtt = b /\ cap.res.engine = b
        IN  /\ all(FiveRules(p, t))
            /\ p = <<"*">> => all(TRUE)
            /\ p = t => all(TRUE)

\* a `.*` pattern was matched against its own prefix
C21_Witness ==
    /\ cap.op = "topic_matches"
    /\ cap.arg.pattern = <<"a", ".", "*">>
    /\ cap.arg.topic = <<"a">>
    /\ cap.res = [bus |-> TRUE, mqtt |-> TRUE, engine |-> TRUE]

\* ---- C22 ----
\* this step is handle_event completing a SetEntityState action
SetEntityStateFired ==
    /\ run.op = "handle_event"
    /\ run.acts # <<>>
    /\ Head(run.acts).type = "set_entity_state"
    /\ Len(effects') = Len(effects) + 1

\* the clock of the engine is not behind the records the entity has
ClockNotBehind(entity_id, now) ==
    \A i \in DOMAIN states_by_entity[entity_id] :
        /\ states_by_entity[entity_id][i].last_updated <= now
        /\ states_by_entity[entity_id][i].last_changed <= now

\* C22: when handle_event fires a SetEntityState action for a registered
\* entity, every answer latest_entity_state(entity_id) may give afterwards
\* is a record with the action's value and attributes, source "automation"
\* and last_changed = last_updated.
C22_Step ==
    \A e \in EntityIds :
        /\ SetEntityStateFired
        /\ Head(run.acts).entity_id = e
        /\ ClockNotBehind(e, st_ret'.arg.last_updated)
        => \A r \in latest_results(e)' :
              /\ r.tag = "ok"
              /\ r.val # None
              /\ r.val[1].value = Head(run.acts).value
              /\ r.val[1].attributes = Head(run.acts).attributes
              /\ r.val[1].source = Some("automation")
              /\ r.val[1].last_changed = r.val[1].last_updated

C22_LatestIsAutomationState == [][C22_Step]_vars

\* ---- C23 ----
\* the tokens a request presents: the rest of an Authorization header that
\* starts with "Bearer ", and the x-api-key header
Presented(req) ==
    {trim(SubSeq(a, 8, Len(a))) :
        a \in {h \in {req.authorization[i] : i \in DOMAIN req.authorization} :
                  Len(h) >= 7 /\ SubSeq(h, 1, 7) = <<"B", "e", "a", "r", "e", "r", " ">>}}
    \cup {req.x_api_key[i] : i \in DOMAIN req.x_api_key}

\* the request presents no token of the configured list
LacksToken(req) ==
    \A t \in Presented(req) : \A i \in DOMAIN api.tokens : api.tokens[i] # t

Unauthorized == {"401 Unauthorized", "UNAUTHENTICATED"}

\* C23: with a non-empty token list, a request to a route or method of the
\* HTTP or gRPC surface that presents no matching token is answered as
\* unauthorized and changes neither the storage nor the bus; with an empty
\* list no request is answered as unauthorized.  (The probe /healthz, which
\* touches nothing, is left aside.)
C23_Step ==
    api'.n = api.n + 1 /\ api'.req[1].route # "healthz" =>
        /\ api.tokens # <<>> /\ LacksToken(api'.req[1]) =>
              /\ api'.status \in Unauthorized
              /\ UNCHANGED <<chan, areas, devices, entities, states_by_entity>>
        /\ api.tokens = <<>> => api'.status \notin Unauthorized

C23_NoRequestWithoutToken == [][C23_Step]_vars

\* ---- C24 ----
\* the correlation id of the command envelope at a position of the channel
CommandCorrelation(pos) ==
    LET raw == from_slice("Value", chan[pos].payload)
    IN  IF raw.tag = "ok" THEN as_kind("str", get(raw.val, "correlation_id")) ELSE None

\* the correlation id a published state update carries
UpdateCorrelation(payload) ==
    LET update == from_slice("StateUpdate", payload)
    IN  IF update.tag = "ok" /\ "correlation_id" \in DOMAIN update.val
        THEN update.val.correlation_id ELSE None

\* C24: the state update a component publishes as the result of a command
\* that carries a correlation_id carries the same correlation id.
C24_UpdateEchoesCorrelation ==
    \A i \in DOMAIN comp.log :
        comp.log[i].step = "publish" /\ CommandCorrelation(comp.log[i].pos) # None =>
            UpdateCorrelation(chan[comp.log[i].at].payload)
                = CommandCorrelation(comp.log[i].pos)

\* ---- C26 ----
\* what a step of a subscription shows outside the receiver's cursor: the
\* items its stream has yielded and the result the bus returned; the bus
\* keeps no counter
Observable(s) == <<subs[s].out, bus_ret>>

\* C26: whenever a subscription loses messages because its buffer overflowed,
\* a dropped-message event is recorded that is observable outside the
\* subscription.
C26_Step ==
    \A s \in DOMAIN subs :
        IsSub(s) /\ subs[s].lost # subs'[s].lost => Observable(s)' # Observable(s)

C26_LossIsObservable == [][C26_Step]_vars

\* ---- C27 ----
\* the actions of the automation of the run in flight, as declared
Declared == automations[run.id][1].actions

\* C27: within one automation run the actions execute in declaration order:
\* action i+1 starts only after action i has completed successfully, and if
\* action i fails, no action with a higher index is executed in that run.
C27_Step ==
    run.acts # <<>> =>
        /\ run.acts = SubSeq(Declared, run.idx + 1, Len(Declared))
        /\ effects' # effects =>
              /\ effects' = Append(effects, effects'[Len(effects')])
              /\ effects'[Len(effects')].id = run.id
              /\ effects'[Len(effects')].idx = run.idx + 1
              /\ effects'[Len(effects')].type = Declared[run.idx + 1].type
              /\ run'.acts = Tail(run.acts) /\ run'.idx = run.idx + 1
        /\ run' # run /\ effects' = effects =>
              run' = Idle /\ auto_ret'.op = run.op /\ auto_ret'.res.tag # "ok"

C27_ActionsInDeclarationOrder == [][C27_Step]_vars

\* both actions of an automation have completed, the first before the second
C27_Witness ==
    /\ Len(effects) = 2
    /\ effects[1].id = effects[2].id
    /\ effects[1].idx = 1 /\ effects[2].idx = 2
    /\ effects[1].type = "set_entity_state" /\ effects[2].type = "log"

\* ---- C28 ----
\* the cases in which a trigger fires on an event
Fires(trigger, event) ==
    \/ /\ trigger.type = "time" /\ event.type = "time_fired"
       /\ trigger.cron = event.cron
    \/ /\ trigger.type = "state_change" /\ event.type = "state_changed"
       /\ trigger.entity_id = event.entity_id
       /\ trigger.from = None \/ trigger.from = event.from
       /\ trigger.to = None \/ trigger.to = Some(event.to)
    \/ /\ trigger.type = "mqtt_topic" /\ event.type = "mqtt_message"
       /\ FiveRules(trigger.pattern, event.topic)
    \/ trigger.type = "heartbeat" /\ event.type = "heartbeat"
    \/ trigger.type = "manual" /\ event.type = "manual"

\* C28: trigger_matches(trigger, event) is true exactly for a Time trigger
\* and a TimeFired of an equal cron string, a StateChange trigger and a
\* StateChanged of the same entity whose from and to equal those of the
\* trigger that are present, an MqttTopic trigger and an MqttMessage whose
\* topic matches the pattern, Heartbeat with Heartbeat, Manual with Manual.
C28_TriggerTable ==
    cap.op = "trigger_matches" => cap.res = Fires(cap.arg.trigger, cap.arg.event)

\* a state change trigger with both values present fired on its event
C28_Witness ==
    /\ cap.op = "trigger_matches"
    /\ cap.arg.trigger.type = "state_change"
    /\ cap.arg.trigger.from # None /\ cap.arg.trigger.to # None
    /\ cap.res

\* ---- C29 ----
\* the latest persisted state of an entity: of its records with the greatest
\* last_updated the one stored last
LatestPersisted(id) ==
    LET v == states_by_entity[id]
        top == {i \in DOMAIN v : \A j \in DOMAIN v : v[j].last_updated <= v[i].last_updated}
    IN  v[CHOOSE i \in top : \A j \in top : j <= i]

\* what the condition is to give for the event
Holds(condition, event) ==
    IF event.type = "state_changed" /\ event.entity_id = condition.entity_id
    THEN event.to = condition.value
    ELSE /\ states_by_entity[condition.entity_id] # <<>>
         /\ LatestPersisted(condition.entity_id).value = condition.value

\* C29: EntityStateEquals{entity_id, value} holds if the event is a
\* StateChanged for that entity whose `to` equals value; for any other event
\* it holds exactly when the latest persisted state of the entity exists and
\* its value equals value (absent state gives false).
C29_Step ==
    cap.op = "none" /\ cap'.op = "condition_holds"
        /\ cap'.arg.condition.type = "entity_state_equals" =>
            /\ cap'.res.tag = "ok"
            /\ cap'.res.val = Holds(cap'.arg.condition, cap'.arg.event)

C29_EntityStateEquals == [][C29_Step]_vars

\* ---- C25 ----
\* the place on the channel of the publish that is the i-th event
ChanPos(i) == Cardinality({j \in 1 .. i : mq.log[j].event_kind = "publish"})

\* the i-th event is a publish that follows an error, and subscription s was
\* made before it with a pattern its topic matches
AfterError(i, s) ==
    IF Len(mq.log) < i THEN FALSE
    ELSE /\ mq.log[i].event_kind = "publish"
         /\ \E j \in 1 .. (i - 1) : mq.log[j].event_kind = "error"
         /\ IsSub(s)
         /\ subs[s].created < ChanPos(i)
         /\ mqtt_topic_matches(subs[s].pattern, mq.log[i].msg.topic)

\* the stream of s has yielded it, or s has lost it to an overflow of its
\* buffer
Delivered(i, s) ==
    IF Len(mq.log) < i THEN FALSE
    ELSE ChanPos(i) \in OutSet(subs[s]) \/ ChanPos(i) \in subs[s].lost

\* C25: when the remote bus's event loop reports an error the bus polls
\* again after a backoff, for as long as errors persist: every event of the
\* connection is polled in the end; no subscriber stream ends or yields
\* anything but a message of the channel; and a message received after an
\* error is delivered to the subscriptions that were there before it.
C25_ErrorsDoNotStopTheBus ==
    /\ [][\A s \in BusSubIds : IsSub(s) => subs'[s].open]_vars
    /\ [](\A s \in BusSubIds : OutSet(subs[s]) \subseteq DOMAIN chan)
    /\ [](mq.loop \in {"polling", "sleeping"})
    /\ (mq.loop = "sleeping") ~> (mq.loop = "polling")
    /\ \A i \in 1 .. MaxEvents : (Len(mq.log) >= i) ~> (mq.next > i)
    /\ \A i \in 1 .. MaxEvents, s \in BusSubIds : AfterError(i, s) ~> Delivered(i, s)

\* errors persisted over two polls, and the message that came after them was
\* yielded by a subscription made before the first error
C25_Witness ==
    /\ Len(mq.log) = 3
    /\ mq.log[1].event_kind = "error" /\ mq.log[2].event_kind = "error"
    /\ mq.log[3].event_kind = "publish"
    /\ \E s \in BusSubIds : IsSub(s) /\ subs[s].created = 0 /\ 1 \in OutSet(subs[s])

\* ---- C30 ----
\* the payload at a position of the channel decodes, lifts to a command of
\* the component's domain and passes the description's validate
ValidCommand(pos) ==
    LET raw == from_slice("Value", chan[pos].payload)
        command == IF raw.tag = "ok" THEN from_json(comp.domain, raw.val) ELSE Err
    IN  /\ command.tag = "ok"
        /\ validate(comp.domain, comp.description, command.val).tag = "ok"

\* the steps the component has recorded for the command at a position
StepsAt(pos, step) == {i \in DOMAIN comp.log : comp.log[i].pos = pos /\ comp.log[i].step = step}

\* the component is at that step for the command at the position
Now(pos, pc) == comp.pc = pc /\ comp.pos = pos

\* the command loop has been started
Started == comp.domain \in CapDomains /\ IsSub("component")

\* C30: a component's command receiver keeps running after a command that
\* fails to decode, fails validation or makes the driver return an error: the
\* failing message produces no StateUpdate, and every valid command the
\* receiver takes, also after failures, is applied and answered with a
\* StateUpdate.
C30_ReceiverSurvivesErrors ==
    Started =>
        /\ comp.pc \in {"running", "applying", "publishing"}
        /\ \A k \in DOMAIN subs["component"].out :
              LET pos == subs["component"].out[k] IN
              /\ ~ValidCommand(pos) =>
                    StepsAt(pos, "apply") = {} /\ StepsAt(pos, "publish") = {}
              /\ ValidCommand(pos) =>
                    StepsAt(pos, "apply") # {} \/ Now(pos, "applying")
              /\ \A i \in StepsAt(pos, "apply") :
                    IF comp.log[i].result.tag = "ok"
                    THEN StepsAt(pos, "publish") # {} \/ Now(pos, "publishing")
                    ELSE StepsAt(pos, "publish") = {}
        /\ Cardinality(StateUpdatePositions)
              = Cardinality({i \in DOMAIN comp.log : comp.log[i].step = "publish"})

\* a command that failed before the driver was followed by a valid command
\* that was applied and answered
C30_Witness ==
    /\ Started
    /\ Len(subs["component"].out) = 2
    /\ ~ValidCommand(subs["component"].out[1])
    /\ StepsAt(subs["component"].out[2], "publish") # {}
    /\ comp.pc = "running"

\* ---- C31 ----
\* the automation would run for the event: enabled, its trigger matches and
\* its conditions hold
Runnable(automation, event) ==
    /\ automation.enabled
    /\ trigger_matches(automation.trigger, event)
    /\ \E r \in conditions_hold(automation.conditions, event) : r.tag = "ok" /\ r.val

\* a delivered heartbeat message starts exactly one handle_event call with
\* the message's ts, a payload that does not decode starts none, and no call
\* starts without a delivered message
DispatchedOnce ==
    /\ \A pos \in DOMAIN chan :
          subs'["automation"].out = Append(subs["automation"].out, pos) =>
              LET hb == from_slice_Heartbeat(chan[pos].payload) IN
              IF hb.tag = "ok"
              THEN /\ run = Idle /\ run'.op = "handle_event"
                   /\ run'.event = [type |-> "heartbeat", ts |-> hb.val.ts]
              ELSE run' = run /\ tasks' = tasks
    /\ run = Idle /\ run' # Idle => subs'["automation"].out # subs["automation"].out

\* C31: every decodable Heartbeat delivered on krypin.hub.heartbeat causes
\* exactly one handle_event(Heartbeat{ts}) with the message's ts, so every
\* enabled Heartbeat automation whose conditions hold runs for it; an
\* undecodable heartbeat or a failing handle_event does not stop the task.
C31_Step ==
    /\ DispatchedOnce
    /\ run.op = "handle_event" /\ run' = Idle =>
          \A k \in DOMAIN run.todo : ~Runnable(run.todo[k], run.event)
    /\ tasks["automation"] = "running" => tasks'["automation"] = "running"

C31_HeartbeatsDispatched == [][C31_Step]_vars

\* ---- C32 ----
\* how often a record occurs in a sequence of records
Count(v, r) == Cardinality({i \in DOMAIN v : v[i] = r})

\* C32: entity-state history is append-only: every record a successful
\* set_entity_state stored for an entity stays in that entity's history,
\* unmodified, and the number of records of an entity never decreases.
C32_Step ==
    /\ \A id \in EntityIds :
          /\ Len(states_by_entity'[id]) >= Len(states_by_entity[id])
          /\ \A i \in DOMAIN states_by_entity[id] :
                Count(states_by_entity'[id], states_by_entity[id][i])
                    >= Count(states_by_entity[id], states_by_entity[id][i])
    /\ st_ret'.op = "set_entity_state" /\ st_ret'.res.tag = "ok" =>
          Count(states_by_entity'[st_ret'.arg.entity_id], st_ret'.arg)
              = Count(states_by_entity[st_ret'.arg.entity_id], st_ret'.arg) + 1

C32_HistoryIsAppendOnly == [][C32_Step]_vars

\* an entity has three records, the last stored by a call that returned ok
C32_Witness ==
    /\ Len(states_by_entity["e1"]) = 3
    /\ st_ret.op = "set_entity_state" /\ st_ret.res.tag = "ok"

\* ---- C33 ----
\* following parent links from area id for at most n steps reaches an area
\* without parent
RECURSIVE ReachesRoot(_, _)
ReachesRoot(id, n) ==
    IF areas[id] = None THEN FALSE
    ELSE IF areas[id][1].parent = None THEN TRUE
    ELSE IF n = 0 THEN FALSE
    ELSE ReachesRoot(areas[id][1].parent[1], n - 1)

\* C33: after any sequence of upsert_area calls (re-upserts with another
\* parent or with the area itself as parent included) the stored areas form
\* a forest: from every stored area the parent links reach a root without
\* revisiting an area.
C33_AreasFormForest ==
    \A id \in AreaIds :
        contains_key(areas, id) => ReachesRoot(id, Cardinality(AreaIds) - 1)

\* ---- C34 ----
\* the last engine call that returned is a successful set_enabled(id, false)
DisabledJustNow(id) ==
    /\ auto_ret.op = "set_enabled"
    /\ auto_ret.res.tag = "ok"
    /\ auto_ret.arg = <<id, FALSE>>

\* C34: once set_enabled(id, false) has returned, no action of automation
\* id starts executing until it is enabled again, also when a handle_event
\* call that began before the disable is still in flight.
C34_Step ==
    /\ run.op = "handle_event"
    /\ run.acts # <<>>
    /\ DisabledJustNow(run.id)
    => run'.acts = run.acts

C34_DisableStopsInFlightRun == [][C34_Step]_vars

\* ---- C35 ----
\* the receiver of task t was created before message i was published
SubscribedBefore(t, i) == IsSub(t) /\ subs[t].created < i

\* C35: the subscriptions of the hub's subscriber tasks are active when
\* spawn_all returns: every message published afterwards on a task's topic
\* reaches that task's receiver.
C35_SubscribedWhenSpawnAllReturns ==
    \A t \in HubTasks : \A i \in DOMAIN chan :
        topic_matches(task_pattern(t), chan[i].topic) => SubscribedBefore(t, i)

\* ---- C36 ----
\* C36: processing a StateUpdate received on krypin.state.update.<X> appends
\* a state record to entity X only, never to another entity.
C36_Step ==
    \A id \in EntityIds :
        states_by_entity'[id] # states_by_entity[id] =>
            /\ hub_ret'.task = "state"
            /\ hub_ret'.msg.topic = TOPIC_STATE_UPDATE_PREFIX \o <<id>>

C36_UpdateChangesTopicEntityOnly == [][C36_Step]_vars

\* ---- C37 ----
(* handle_event run to completion on the state histories h, no other call   *)
(* in between: the same code as the actions above, as a function of the     *)
(* listing.  Each operator gives the set of outcomes the call may have.     *)

\* storage.rs:199-202, 416-426 on h
latest_entity_state_on(h, id) ==
    IF kind = "inmem"
    THEN (IF poisoned THEN {Panicked}
          ELSE {Ok(IF h[id] = <<>> THEN None ELSE Some(h[id][Len(h[id])]))})
    ELSE IF h[id] = <<>> THEN {Ok(None)}
    ELSE {Ok(r) : r \in OrderByLastUpdatedDesc(h[id], DOMAIN h[id], 1)}

\* storage.rs:188-197, 391-414 on h: the result and the histories afterwards
set_entity_state_on(h, state) ==
    IF kind = "inmem" /\ poisoned THEN [res |-> Panicked, h |-> h]
    ELSE IF ~contains_key(entities, state.entity_id) THEN [res |-> Err, h |-> h]
    ELSE [res |-> Ok(<<>>),
          h |-> [h EXCEPT ![state.entity_id] =
                    IF kind = "inmem" THEN sort_by_key(Append(@, state))
                    ELSE Append(@, state)]]

\* lib.rs:266-285 on h
condition_holds_on(h, condition, event) ==
    CASE condition.type = "always" -> {Ok(TRUE)}
      [] condition.type = "entity_state_equals" ->
            IF event.type = "state_changed" /\ event.entity_id = condition.entity_id
            THEN {Ok(event.to = condition.value)}
            ELSE {IF r.tag = "ok"
                  THEN Ok(r.val # None /\ r.val[1].value = condition.value)
                  ELSE r : r \in latest_entity_state_on(h, condition.entity_id)}
      [] condition.type = "payload_equals" ->
            IF event.type = "mqtt_message"
            THEN {Ok(pointer(event.payload, condition.path) = Some(condition.value))}
            ELSE {Ok(FALSE)}

\* lib.rs:253-264 on h
RECURSIVE conditions_hold_on(_, _, _)
conditions_hold_on(h, conditions, event) ==
    IF conditions = <<>> THEN {Ok(TRUE)}
    ELSE UNION {IF r.tag # "ok" THEN {r}
                ELSE IF ~r.val THEN {Ok(FALSE)}
                ELSE conditions_hold_on(h, Tail(conditions), event) :
                    r \in condition_holds_on(h, Head(conditions), event)}

\* lib.rs:287-318 on h: the actions in order, `?` at the first failure
RECURSIVE execute_actions_on(_, _)
execute_actions_on(h, actions) ==
    IF actions = <<>> THEN {[res |-> Ok(<<>>), h |-> h]}
    ELSE LET action == Head(actions) IN
         IF action.type = "set_entity_state"
         THEN UNION {LET r == set_entity_state_on(h, EntityState(action.entity_id,
                                action.value, action.attributes, now, now,
                                Some("automation")))
                     IN  IF r.res.tag = "ok"
                         THEN execute_actions_on(r.h, Tail(actions))
                         ELSE {r} : now \in Times}
         ELSE execute_actions_on(h, Tail(actions))

\* lib.rs:213-225 on h and the listing todo: the automations whose actions
\* were run (ran), the histories afterwards and the result of the call
RECURSIVE handle_event_on(_, _, _, _)
handle_event_on(h, todo, event, ran) ==
    IF todo = <<>> THEN {[ran |-> ran, h |-> h, res |-> Ok(<<>>)]}
    ELSE LET automation == Head(todo) IN
         IF ~filter_enabled(automation) \/ ~trigger_matches(automation.trigger, event)
         THEN handle_event_on(h, Tail(todo), event, ran)
         ELSE UNION {IF c.tag # "ok" THEN {[ran |-> ran, h |-> h, res |-> c]}
                     ELSE IF ~c.val THEN handle_event_on(h, Tail(todo), event, ran)
                     ELSE UNION {IF a.res.tag = "ok"
                                 THEN handle_event_on(a.h, Tail(todo), event,
                                                      ran \cup {automation.id})
                                 ELSE {[ran |-> ran \cup {automation.id}, h |-> a.h,
                                        res |-> a.res]} :
                                     a \in execute_actions_on(h, automation.actions)} :
                        c \in conditions_hold_on(h, automation.conditions, event)}

\* what a handle_event call leaves behind: who ran, and the storage
Outcomes(listing, event) ==
    {[ran |-> o.ran, h |-> o.h] :
        o \in handle_event_on(states_by_entity, listing, event, {})}

\* C37: for the same automation definitions, the same storage content and
\* the same event, the automations whose actions execute and the resulting
\* storage state do not depend on the order in which the store lists the
\* automations.
C37_ListingOrderIrrelevant ==
    \A event \in TriggerEvents : \A l1, l2 \in list :
        Outcomes(l1, event) = Outcomes(l2, event)

\* ---- C38 ----
\* an action of the handle_event call the heartbeat task dispatched for the
\* message hub_ret.msg publishes on the bus in this step
DispatchPublishes ==
    /\ hub_ret.outcome = "dispatched"
    /\ run.op = "handle_event"
    /\ Len(effects') > Len(effects)
    /\ Len(chan') > Len(chan)

\* C38: one externally produced bus message leads to finitely many action
\* executions: a PublishBusMessage action never starts an unbounded
\* publish -> heartbeat subscriber -> handle_event -> publish cycle.  A
\* cycle is closed, and then repeats without end, as soon as the call
\* dispatched for a message publishes that very message again.
C38_Step ==
    DispatchPublishes => chan'[Len(chan')] # hub_ret.msg

C38_NoPublishCycle == [][C38_Step]_vars

\* ---- C39 ----
\* the entries of the component's log that are driver calls / publishes
LogSteps(step) == {i \in DOMAIN comp.log : comp.log[i].step = step}

\* C39: a component handles the commands of its entity one at a time in
\* arrival order: the driver's apply for a later command is not invoked
\* before the earlier command has had its StateUpdate published or was
\* dropped with an error, and the StateUpdates are published in the order
\* of the commands that caused them.
C39_OneCommandAtATime ==
    LET log == comp.log IN
    /\ \A i, j \in DOMAIN log : i < j =>
          /\ log[i].pos <= log[j].pos
          /\ log[i].step = log[j].step => log[i].pos < log[j].pos
    /\ \A j \in LogSteps("publish") :
          /\ j > 1
          /\ log[j - 1].step = "apply"
          /\ log[j - 1].pos = log[j].pos
          /\ log[j - 1].result.tag = "ok"
          /\ log[j].at > log[j].pos
          /\ chan[log[j].at].payload = to_vec("StateUpdate", log[j].update)
    /\ \A i \in LogSteps("apply") :
          /\ chan[log[i].pos].topic = TOPIC_COMMAND_PREFIX \o <<"e1">>
          /\ i < Len(log) /\ log[i].result.tag = "ok" =>
                log[i + 1].step = "publish" /\ log[i + 1].pos = log[i].pos
          /\ i = Len(log) /\ log[i].result.tag = "ok" => comp.pc = "publishing"
    /\ \A i, j \in LogSteps("publish") : i < j => log[i].at < log[j].at
    /\ comp.pc = "applying" =>
          \A i \in DOMAIN log : log[i].pos < comp.pos

\* two commands were answered, the second having arrived before the update
\* of the first was published
C39_Witness ==
    /\ Cardinality(LogSteps("publish")) = 2
    /\ \E i, j \in LogSteps("publish") :
          i < j /\ comp.log[j].pos < comp.log[i].at

\* ---- C40 ----
\* C40: set_entity_state for entity A leaves the latest state and the
\* history of every other entity B unchanged and leaves the stored areas,
\* devices and entities unchanged; a failed set_entity_state changes nothing
\* at all.
C40_Step ==
    st_ret'.op = "set_entity_state" =>
        /\ areas' = areas /\ devices' = devices /\ entities' = entities
        /\ kind' = kind /\ poisoned' = poisoned
        /\ \A B \in EntityIds \ {st_ret'.arg.entity_id} :
              /\ states_by_entity'[B] = states_by_entity[B]
              /\ latest_results(B)' = latest_results(B)
              /\ \A limit \in 0 .. 2 :
                    history_results(B, None, limit)' = history_results(B, None, limit)
        /\ st_ret'.res.tag # "ok" => states_by_entity' = states_by_entity

C40_SetStateFrame == [][C40_Step]_vars

\* a state was stored for e2 while e1 has a record of its own
C40_Witness ==
    /\ st_ret.op = "set_entity_state" /\ st_ret.res.tag = "ok"
    /\ st_ret.arg.entity_id = "e2"
    /\ states_by_entity["e1"] # <<>>

====
